---- MODULE Spec2Model ----
(***************************************************************************)
(* Build lifecycle and access control of conda-store, as served by the     *)
(* REST handlers of conda_store_server/_internal/server/views/api.py.      *)
(*                                                                         *)
(* The handlers are translated from api.py.  The collaborators they call   *)
(* (the authorization engine, conda_store.register_environment /           *)
(* create_build / delete_build, the worker tasks) are not part of the      *)
(* sources at hand and are modelled from the specification document.       *)
(***************************************************************************)
EXTENDS Integers, Sequences, FiniteSets, TLC

VARIABLES
    namespaces,     \* names of the namespace rows
    environments,   \* <<namespace, name>> of the environment rows
    current_build,  \* environment -> id of its current build (0: none)
    builds,         \* build id -> Build row
    next_build_id,  \* autoincrement of the build table
    tasks,          \* dispatched, unfinished celery tasks: <<build id, phase>>
    cleanups,       \* scheduled task_cleanup_builds: [build_id, countdown]
    storage,        \* artifact keys present in the blob store
    cancel,         \* the api_put_build_cancel request in flight
    response,       \* HTTP status of the request answered last
    gate,           \* authorization evaluated by the request answered last
    solves,         \* registered solves: content hash -> state of its task
    solve_req,      \* the api_get_specification requests in flight
    tokens,         \* the tokens issued by api_post_token
    now,            \* the clock, in days
    role_mappings,  \* rows of the namespace role mapping table
    next_role_id,   \* autoincrement of the namespace role mapping table
    sessions,       \* the api_create_namespace_role requests in flight
    namespace_rows,       \* rows of the namespace table
    next_namespace_id,    \* autoincrement of the namespace table
    environment_rows,     \* rows of the environment table
    next_environment_id,  \* autoincrement of the environment table
    create_req,     \* the api_create_namespace requests in flight
    listing,        \* what the listing or the lookup answered last returned
    kvstore         \* rows of the key-value store: <<prefix, key>> -> value

buildVars == <<namespaces, environments, current_build, builds, next_build_id,
               tasks, cleanups, storage>>
solveVars == <<solves, solve_req>>
tokenVars == <<tokens, now>>
roleVars == <<role_mappings, next_role_id, sessions>>
registryVars == <<namespace_rows, next_namespace_id, environment_rows,
                  next_environment_id, create_req>>
vars == <<buildVars, cancel, kvstore, response, gate, solveVars, tokenVars, roleVars,
          registryVars, listing>>

(* What the build endpoints and the build tasks never touch *)
offBuild == <<solveVars, tokenVars, roleVars, registryVars, listing, kvstore>>

----------------------------------------------------------------------------
(* Bounds of the model *)

MaxBuilds == 2
MaxRequests == 2
MaxTokens == 2
MaxTime == 2

----------------------------------------------------------------------------
(* Universe of names *)

DefaultNamespace == "default"
NamespaceNames == {"ns1"}
EnvNames == {"env1"}
SpecHashes == {"h1"}
None == "None"

(* A parsed specification: its name is the environment's name. *)
Specifications == [name : EnvNames, sha256 : SpecHashes]
(* A body yaml.safe_load or the schema validation rejects *)
InvalidYaml == [name |-> "", sha256 |-> ""]

----------------------------------------------------------------------------
(* Authorization engine (conda_store_server.server.auth) *)

Viewer == "viewer"
Developer == "developer"
Admin == "admin"
Roles == {Viewer, Developer, Admin}

AllPermissions ==
    {"BUILD_CANCEL", "BUILD_DELETE",
     "ENVIRONMENT_CREATE", "ENVIRONMENT_READ", "ENVIRONMENT_UPDATE",
     "ENVIRONMENT_DELETE",
     "NAMESPACE_CREATE", "NAMESPACE_READ", "NAMESPACE_UPDATE",
     "NAMESPACE_DELETE",
     "NAMESPACE_ROLE_MAPPING_CREATE", "NAMESPACE_ROLE_MAPPING_READ",
     "NAMESPACE_ROLE_MAPPING_UPDATE", "NAMESPACE_ROLE_MAPPING_DELETE",
     "SETTING_READ", "SETTING_UPDATE"}

(* The fixed role -> permission table. *)
RolePermissions(role) ==
    CASE role = Viewer ->
           {"ENVIRONMENT_READ", "NAMESPACE_READ",
            "NAMESPACE_ROLE_MAPPING_READ"}
      [] role = Developer ->
           {"BUILD_CANCEL", "ENVIRONMENT_CREATE", "ENVIRONMENT_READ",
            "ENVIRONMENT_UPDATE", "NAMESPACE_READ",
            "NAMESPACE_ROLE_MAPPING_READ", "SETTING_READ"}
      [] role = Admin -> AllPermissions
      [] OTHER -> {}

(* One segment of a binding pattern against one segment of an ARN. *)
SegmentMatch(pat, seg) == pat = "*" \/ pat = seg

(* A pattern <<namespace, environment>> against an ARN; a namespace-level   *)
(* ARN has the empty environment segment.                                   *)
ArnMatch(pat, arn) == SegmentMatch(pat[1], arn[1]) /\ SegmentMatch(pat[2], arn[2])

(* Union of the permissions of every binding whose pattern matches. *)
BindingPermissions(bindings, arn) ==
    UNION {RolePermissions(r) :
             r \in UNION {bindings[p] : p \in {q \in DOMAIN bindings : ArnMatch(q, arn)}}}

NoBindings == [p \in {} |-> {}]

(* Bindings of the anonymous identity. *)
UnauthenticatedBindings == [p \in {<<DefaultNamespace, "*">>} |-> {Viewer}]

(* An AuthenticationToken; NoEntity stands for the entity None of an       *)
(* unauthenticated request.                                                 *)
Token(exp, primary_namespace, role_bindings) ==
    [exp |-> exp, primary_namespace |-> primary_namespace,
     role_bindings |-> role_bindings]

NoEntity == Token(-1, "", NoBindings)

(* The callers of the endpoints: None is the unauthenticated caller. *)
Callers == {None, "dev", "admin"}

Entity(c) ==
    CASE c = "dev"   -> Token(MaxTime, "ns1", [p \in {<<"ns1", "*">>} |-> {Developer}])
      [] c = "admin" -> Token(MaxTime, "ns1", [p \in {<<"*", "*">>} |-> {Admin}])
      [] OTHER       -> NoEntity

get_entity_bindings(entity) ==
    IF entity = NoEntity THEN UnauthenticatedBindings ELSE entity.role_bindings

(* The ARNs the requests name: <<namespace, environment>>, the environment *)
(* empty for a namespace                                                    *)
RequestArns == {DefaultNamespace, "ns1", "ns2", "nsX", "ns!"} \X {"", "env1"}

(* The effective permissions of each caller on each ARN *)
entity_permissions ==
    [c \in Callers |->
        [arn \in RequestArns |->
            BindingPermissions(get_entity_bindings(Entity(c)), arn)]]

(* authorize_request that passes as soon as the caller holds one of the    *)
(* required permissions                                                     *)
authorized_by_any_permission(c, arn, required) ==
    required \cap entity_permissions[c][arn] # {}

(* authorize_request(request, arn, required, require=True) passes: the     *)
(* caller's effective permissions fully contain the required set           *)
Authorized(c, arn, required) == required \subseteq entity_permissions[c][arn]

PrimaryNamespace(c) ==
    IF Entity(c) = NoEntity THEN DefaultNamespace ELSE Entity(c).primary_namespace

----------------------------------------------------------------------------
(* Build rows and the tasks of a build *)

QUEUED == "QUEUED"
BUILDING == "BUILDING"
COMPLETED == "COMPLETED"
FAILED == "FAILED"
CANCELED == "CANCELED"
BuildStatus == {QUEUED, BUILDING, COMPLETED, FAILED, CANCELED}
Terminal == {COMPLETED, FAILED, CANCELED}

BuildIds == 1..MaxBuilds

(* Phases of a build; a task is named build-{id}-{phase}. *)
ArtifactPhases == {"conda-env-export", "conda-lock", "conda-pack",
                   "constructor-installer", "docker"}
Phases == {"environment"} \cup ArtifactPhases

TaskName(id, phase) == <<id, phase>>

(* Every task dispatched for build id. *)
BuildTasks(id) == {TaskName(id, ph) : ph \in Phases}

BuildArn(b) == builds[b].env

Exists(b) == b \in DOMAIN builds

(* f with key k bound to v *)
Put(f, k, v) == [x \in DOMAIN f \cup {k} |-> IF x = k THEN v ELSE f[x]]

(* f without key k *)
Drop(f, k) == [x \in DOMAIN f \ {k} |-> f[x]]

Idle == [pc |-> "idle", build_id |-> 0]

(* The request handling workers that may be inside a multi-step handler *)
Slots == 1..MaxRequests

NoSolveRequest == [pc |-> "idle", sha |-> "", gate |-> "none"]
NoSession == [pc |-> "idle", namespace |-> "", other |-> "", role |-> ""]

(* No create-namespace request in flight *)
NoCreate == [pc |-> "idle", name |-> ""]

(* Nothing listed yet *)
NoListing == [caller |-> None, kind |-> "none", rows |-> {}, count |-> 0]

(* The empty namespace and environment tables *)
(* The key-value store without a row *)
NoSettings == [k \in {} |-> 0]

RegistryEmpty ==
    /\ namespace_rows = {}
    /\ next_namespace_id = 1
    /\ environment_rows = {}
    /\ next_environment_id = 1
    /\ create_req = [r \in Slots |-> NoCreate]
    /\ listing = NoListing
    /\ kvstore = NoSettings

Init ==
    /\ namespaces = {}
    /\ environments = {}
    /\ current_build = [e \in {} |-> 0]
    /\ builds = [b \in {} |-> 0]
    /\ next_build_id = 1
    /\ tasks = {}
    /\ cleanups = {}
    /\ storage = {}
    /\ cancel = Idle
    /\ response = "none"
    /\ gate = "none"
    /\ solves = [h \in {} |-> "pending"]
    /\ solve_req = [r \in Slots |-> NoSolveRequest]
    /\ tokens = {}
    /\ now = 0
    /\ role_mappings = {}
    /\ next_role_id = 1
    /\ sessions = [r \in Slots |-> NoSession]
    /\ RegistryEmpty

(* The outcome of a request: its HTTP status and the authorization         *)
(* evaluation the handler made ("none" when it made none).                 *)
Respond(status, g) == response' = status /\ gate' = g

----------------------------------------------------------------------------
(* conda_store core operations called by the handlers *)

NewBuild(env, sha) ==
    [env |-> env, sha256 |-> sha, status |-> QUEUED, is_canceled |-> FALSE]

(* create_build: a Build row in state QUEUED, then the dispatch of its tasks *)
create_build(env, sha) ==
    /\ next_build_id <= MaxBuilds
    /\ builds' = Put(builds, next_build_id, NewBuild(env, sha))
    /\ next_build_id' = next_build_id + 1
    /\ tasks' = tasks \cup BuildTasks(next_build_id)

(* register_environment with force=True: ensure the namespace and the      *)
(* environment, then a new build                                            *)
register_environment(specification, namespace_name) ==
    LET env == <<namespace_name, specification.name>> IN
    /\ namespaces' = namespaces \cup {namespace_name}
    /\ environments' = environments \cup {env}
    /\ current_build' = IF env \in DOMAIN current_build
                        THEN current_build ELSE Put(current_build, env, 0)
    /\ create_build(env, specification.sha256)

(* The storage keys of build b *)
BuildKeys(b) == {k \in storage : k[1] = b}

(* delete_build: the Build row and every artifact key of the build *)
delete_build(b) ==
    /\ builds' = Drop(builds, b)
    /\ storage' = storage \ BuildKeys(b)

(* update_environment_build: CondaStoreError unless the build is one of    *)
(* the environment                                                          *)
CanUpdateEnvironmentBuild(env, b) ==
    env \in environments /\ Exists(b) /\ builds[b].env = env

----------------------------------------------------------------------------
(* Request handlers of api.py *)

(* The collaborator raised CondaStoreError or ValueError after the         *)
(* authorization: the handler answers 400 and the transaction is dropped   *)
Rejected ==
    /\ Respond("400", "authorize_request")
    /\ UNCHANGED <<buildVars, cancel, offBuild>>

(* namespace_name = namespace or default_namespace *)
PostNamespace(c, namespace) ==
    IF namespace = None THEN PrimaryNamespace(c) ELSE namespace

(* The permissions api_post_specification requires: NAMESPACE_CREATE too   *)
(* when the namespace does not exist yet                                    *)
PostPermissions(c, namespace) ==
    {"ENVIRONMENT_CREATE"} \cup
    (IF PostNamespace(c, namespace) \in namespaces THEN {} ELSE {"NAMESPACE_CREATE"})

api_post_specification(c, namespace, specification) ==
    LET namespace_name == PostNamespace(c, namespace)
        permissions == PostPermissions(c, namespace)
    IN
    /\ IF specification = InvalidYaml
       THEN /\ Respond("400", "none")
            /\ UNCHANGED <<buildVars, cancel, offBuild>>
       ELSE IF ~Authorized(c, <<namespace_name, specification.name>>, permissions)
       THEN /\ Respond("403", "authorize_request")
            /\ UNCHANGED <<buildVars, cancel, offBuild>>
       ELSE \/ /\ register_environment(specification, namespace_name)
               /\ Respond("200", "authorize_request")
               /\ UNCHANGED <<cleanups, storage, offBuild, cancel>>
            \/ Rejected

(* api_put_build as it would be if a rebuild put the existing row back in  *)
(* the queue instead of creating a new build                                *)
put_build_requeues_row(c, build_id) ==
    /\ IF ~Exists(build_id)
       THEN /\ Respond("404", "none")
            /\ UNCHANGED <<buildVars, cancel, offBuild>>
       ELSE IF ~Authorized(c, BuildArn(build_id), {"ENVIRONMENT_UPDATE"})
       THEN /\ Respond("403", "authorize_request")
            /\ UNCHANGED <<buildVars, cancel, offBuild>>
       ELSE \/ /\ builds' = [builds EXCEPT ![build_id].status = QUEUED]
               /\ tasks' = tasks \cup BuildTasks(build_id)
               /\ Respond("200", "authorize_request")
               /\ UNCHANGED <<namespaces, environments, current_build,
                              next_build_id, cleanups, storage, offBuild, cancel>>
            \/ Rejected

api_put_build(c, build_id) ==
    /\ IF ~Exists(build_id)
       THEN /\ Respond("404", "none")
            /\ UNCHANGED <<buildVars, cancel, offBuild>>
       ELSE IF ~Authorized(c, BuildArn(build_id), {"ENVIRONMENT_UPDATE"})
       THEN /\ Respond("403", "authorize_request")
            /\ UNCHANGED <<buildVars, cancel, offBuild>>
       ELSE \/ /\ create_build(builds[build_id].env, builds[build_id].sha256)
               /\ Respond("200", "authorize_request")
               /\ UNCHANGED <<namespaces, environments, current_build, cleanups,
                              storage, offBuild, cancel>>
            \/ Rejected

(* api_delete_build as it would be if the build were deleted before the    *)
(* caller is authorized                                                     *)
delete_build_before_authorize(c, build_id) ==
    /\ IF ~Exists(build_id)
       THEN /\ Respond("404", "none")
            /\ UNCHANGED <<buildVars, cancel, offBuild>>
       ELSE /\ delete_build(build_id)
            /\ IF ~Authorized(c, BuildArn(build_id), {"BUILD_DELETE"})
               THEN Respond("403", "authorize_request")
               ELSE Respond("200", "authorize_request")
            /\ UNCHANGED <<namespaces, environments, current_build,
                           next_build_id, tasks, cleanups, offBuild, cancel>>

api_delete_build(c, build_id) ==
    /\ IF ~Exists(build_id)
       THEN /\ Respond("404", "none")
            /\ UNCHANGED <<buildVars, cancel, offBuild>>
       ELSE IF ~Authorized(c, BuildArn(build_id), {"BUILD_DELETE"})
       THEN /\ Respond("403", "authorize_request")
            /\ UNCHANGED <<buildVars, cancel, offBuild>>
       ELSE \/ /\ delete_build(build_id)
               /\ Respond("200", "authorize_request")
               /\ UNCHANGED <<namespaces, environments, current_build,
                              next_build_id, tasks, cleanups, offBuild, cancel>>
            \/ Rejected

api_update_environment_build(c, namespace, name, build_id) ==
    /\ IF ~Authorized(c, <<namespace, name>>, {"ENVIRONMENT_UPDATE"})
       THEN /\ Respond("403", "authorize_request")
            /\ UNCHANGED <<buildVars, cancel, offBuild>>
       ELSE IF ~CanUpdateEnvironmentBuild(<<namespace, name>>, build_id)
       THEN /\ Respond("400", "authorize_request")
            /\ UNCHANGED <<buildVars, cancel, offBuild>>
       ELSE /\ current_build' = Put(current_build, <<namespace, name>>, build_id)
            /\ Respond("200", "authorize_request")
            /\ UNCHANGED <<namespaces, environments, builds, next_build_id,
                           tasks, cleanups, storage, offBuild, cancel>>

(* The seconds api_put_build_cancel gives the revoke before the cleanup *)
CleanupCountdown == 5

(* The task names api_put_build_cancel revokes *)
RevokedTasks(build_id) ==
    {TaskName(build_id, "conda-env-export"),
     TaskName(build_id, "conda-pack"),
     TaskName(build_id, "constructor-installer"),
     TaskName(build_id, "environment")}

(* PUT /build/{id}/cancel/, up to the broker ping: the build is read and   *)
(* the caller authorized                                                    *)
api_put_build_cancel_begin(c, build_id) ==
    /\ cancel.pc = "idle"
    /\ IF ~Exists(build_id)
       THEN /\ Respond("404", "none")
            /\ UNCHANGED <<buildVars, cancel, offBuild>>
       ELSE IF ~Authorized(c, BuildArn(build_id), {"BUILD_CANCEL"})
       THEN /\ Respond("403", "authorize_request")
            /\ UNCHANGED <<buildVars, cancel, offBuild>>
       ELSE /\ cancel' = [pc |-> "ping", build_id |-> build_id]
            /\ UNCHANGED <<buildVars, response, gate, offBuild>>

(* api_put_build_cancel_ping as it would be if the revoke were sent before *)
(* the answer of the ping is looked at                                      *)
cancel_ping_after_revoke(alive) ==
    /\ cancel.pc = "ping"
    /\ tasks' = tasks \ RevokedTasks(cancel.build_id)
    /\ IF ~alive
       THEN /\ Respond("409", "authorize_request")
            /\ cancel' = Idle
       ELSE /\ cancel' = [cancel EXCEPT !.pc = "cleanup"]
            /\ UNCHANGED <<response, gate>>
    /\ UNCHANGED <<namespaces, environments, current_build, builds,
                   next_build_id, cleanups, storage, offBuild>>

(* celery_app.control.inspect().ping(): None when no worker answers *)
api_put_build_cancel_ping(alive) ==
    /\ cancel.pc = "ping"
    /\ IF ~alive
       THEN /\ Respond("409", "authorize_request")
            /\ cancel' = Idle
            /\ UNCHANGED <<buildVars, offBuild>>
       ELSE /\ cancel' = [cancel EXCEPT !.pc = "revoke"]
            /\ UNCHANGED <<buildVars, response, gate, offBuild>>

(* api_put_build_cancel_revoke as it would be if the list of revoked names *)
(* lacked the environment task                                              *)
cancel_revoke_without_environment ==
    /\ cancel.pc = "revoke"
    /\ tasks' = tasks \ (RevokedTasks(cancel.build_id)
                            \ {TaskName(cancel.build_id, "environment")})
    /\ cancel' = [cancel EXCEPT !.pc = "cleanup"]
    /\ UNCHANGED <<namespaces, environments, current_build, builds,
                   next_build_id, cleanups, storage, offBuild, response, gate>>

(* celery_app.control.revoke([...], terminate=True) *)
api_put_build_cancel_revoke ==
    /\ cancel.pc = "revoke"
    /\ tasks' = tasks \ RevokedTasks(cancel.build_id)
    /\ cancel' = [cancel EXCEPT !.pc = "cleanup"]
    /\ UNCHANGED <<namespaces, environments, current_build, builds,
                   next_build_id, cleanups, storage, offBuild, response, gate>>

(* api_put_build_cancel_cleanup as it would be if the handler marked the   *)
(* build CANCELED itself                                                    *)
cancel_cleanup_marks_canceled ==
    /\ cancel.pc = "cleanup"
    /\ cleanups' = cleanups \cup
                   {[build_id |-> cancel.build_id, countdown |-> CleanupCountdown]}
    /\ builds' = IF Exists(cancel.build_id)
                 THEN [builds EXCEPT ![cancel.build_id].status = CANCELED,
                                     ![cancel.build_id].is_canceled = TRUE]
                 ELSE builds
    /\ cancel' = Idle
    /\ Respond("200", "authorize_request")
    /\ UNCHANGED <<namespaces, environments, current_build,
                   next_build_id, tasks, storage, offBuild>>

(* api_put_build_cancel_cleanup as it would be if the cleanup task were    *)
(* submitted without a countdown                                            *)
cancel_cleanup_without_countdown ==
    /\ cancel.pc = "cleanup"
    /\ cleanups' = cleanups \cup {[build_id |-> cancel.build_id, countdown |-> 0]}
    /\ cancel' = Idle
    /\ Respond("200", "authorize_request")
    /\ UNCHANGED <<namespaces, environments, current_build, builds,
                   next_build_id, tasks, storage, offBuild>>

(* task_cleanup_builds.si(build_ids=[build_id], is_canceled=True)          *)
(*     .apply_async(countdown=5)                                            *)
api_put_build_cancel_cleanup ==
    /\ cancel.pc = "cleanup"
    /\ cleanups' = cleanups \cup
                   {[build_id |-> cancel.build_id, countdown |-> CleanupCountdown]}
    /\ cancel' = Idle
    /\ Respond("200", "authorize_request")
    /\ UNCHANGED <<namespaces, environments, current_build, builds,
                   next_build_id, tasks, storage, offBuild>>

----------------------------------------------------------------------------
(* The task worker *)

(* task_build_conda_environment starts: QUEUED -> BUILDING *)
task_build_start(b) ==
    /\ TaskName(b, "environment") \in tasks
    /\ Exists(b)
    /\ builds[b].status = QUEUED
    /\ builds' = [builds EXCEPT ![b].status = BUILDING]
    /\ UNCHANGED <<namespaces, environments, current_build, next_build_id,
                   tasks, cleanups, storage, offBuild, cancel, response, gate>>

(* task_build_conda_environment reports: BUILDING -> COMPLETED or FAILED;   *)
(* the artifact tasks chained after it run only after a success             *)
task_build_finish(b, ok) ==
    /\ TaskName(b, "environment") \in tasks
    /\ Exists(b)
    /\ builds[b].status = BUILDING
    /\ builds' = [builds EXCEPT ![b].status = IF ok THEN COMPLETED ELSE FAILED]
    /\ tasks' = IF ok THEN tasks \ {TaskName(b, "environment")}
                      ELSE tasks \ BuildTasks(b)
    /\ UNCHANGED <<namespaces, environments, current_build, next_build_id,
                   cleanups, storage, offBuild, cancel, response, gate>>

(* The artifact tasks of build b that are still dispatched *)
PendingArtifacts(b) == tasks \cap {TaskName(b, ph) : ph \in ArtifactPhases}

(* The group of artifact tasks chained after the environment task: each    *)
(* task of the group still dispatched registers its artifact key           *)
task_build_artifacts(b) ==
    /\ PendingArtifacts(b) # {}
    /\ TaskName(b, "environment") \notin tasks
    /\ Exists(b)
    /\ builds[b].status = COMPLETED
    /\ storage' = storage \cup PendingArtifacts(b)
    /\ tasks' = tasks \ PendingArtifacts(b)
    /\ UNCHANGED <<namespaces, environments, current_build, builds,
                   next_build_id, cleanups, offBuild, cancel, response, gate>>

(* A task whose build row is gone fails *)
task_build_orphan(b) ==
    /\ ~Exists(b)
    /\ tasks \cap BuildTasks(b) # {}
    /\ tasks' = tasks \ BuildTasks(b)
    /\ UNCHANGED <<namespaces, environments, current_build, builds,
                   next_build_id, cleanups, storage, offBuild, cancel,
                   response, gate>>

(* task_cleanup_builds(build_ids=[b], is_canceled=True), run by the worker  *)
(* once its countdown has passed: a build that has not reached a terminal  *)
(* state is marked CANCELED; any other build is left as it is              *)
task_cleanup_builds(cl) ==
    /\ cl \in cleanups
    /\ cleanups' = cleanups \ {cl}
    /\ builds' = IF Exists(cl.build_id) /\ builds[cl.build_id].status \notin Terminal
                 THEN [builds EXCEPT ![cl.build_id].status = CANCELED,
                                     ![cl.build_id].is_canceled = TRUE]
                 ELSE builds
    /\ UNCHANGED <<namespaces, environments, current_build, next_build_id,
                   tasks, storage, offBuild, cancel, response, gate>>

Worker ==
    \/ \E b \in BuildIds : task_build_start(b)
    \/ \E b \in BuildIds, ok \in BOOLEAN : task_build_finish(b, ok)
    \/ \E b \in BuildIds : task_build_artifacts(b)
    \/ \E b \in BuildIds : task_build_orphan(b)
    \/ \E cl \in cleanups : task_cleanup_builds(cl)

Requests ==
    \/ \E c \in Callers, ns \in NamespaceNames \cup {None},
          sp \in Specifications \cup {InvalidYaml} :
          api_post_specification(c, ns, sp)
    \/ \E c \in Callers, b \in BuildIds : api_put_build(c, b)
    \/ \E c \in Callers, b \in BuildIds : api_delete_build(c, b)
    \/ \E c \in Callers, b \in BuildIds : api_put_build_cancel_begin(c, b)
    \/ \E alive \in BOOLEAN : api_put_build_cancel_ping(alive)
    \/ api_put_build_cancel_revoke
    \/ api_put_build_cancel_cleanup

Next == Requests \/ Worker

Spec == Init /\ [][Next]_vars

(* The same with PUT /environment/{namespace}/{name}/, which sets the      *)
(* current build of an environment                                          *)
EnvNext ==
    \/ Next
    \/ \E c \in Callers, ns \in NamespaceNames, n \in EnvNames, b \in BuildIds :
          api_update_environment_build(c, ns, n, b)

EnvSpec == Init /\ [][EnvNext]_vars

----------------------------------------------------------------------------
(* GET /specification/, GET /channel/ and GET /package/ *)

offSolve == <<buildVars, cancel, kvstore, tokenVars, roleVars, registryVars, listing>>

(* Content hashes of the specifications a solve is requested for; the      *)
(* empty hash stands for a specification register_solve rejects            *)
SolveHashes == {"s1", "s2"}
InvalidSolve == ""

(* register_solve as it would be if every request made a solve of its own *)
(* and dispatched it                                                        *)
register_solve_per_request(sha) == solves' = Put(solves, sha, "pending")

(* register_solve: one solve per content hash, its task dispatched when    *)
(* the solve is new                                                         *)
register_solve(sha) ==
    solves' = IF sha \in DOMAIN solves THEN solves ELSE Put(solves, sha, "pending")

(* api_get_specification up to AsyncResult(task).wait(): no call of        *)
(* authorize_request is made before register_solve                          *)
api_get_specification(r, c, sha) ==
    /\ solve_req[r].pc = "idle"
    /\ IF sha = InvalidSolve
       THEN /\ Respond("400", "none")
            /\ UNCHANGED <<solves, solve_req, offSolve>>
       ELSE /\ register_solve(sha)
            /\ solve_req' = [solve_req EXCEPT ![r] =
                                [pc |-> "wait", sha |-> sha, gate |-> "none"]]
            /\ UNCHANGED <<response, gate, offSolve>>

(* api_get_specification after the wait: the solve is read and returned;   *)
(* the failure of the task propagates out of wait()                         *)
api_get_specification_return(r) ==
    /\ solve_req[r].pc = "wait"
    /\ solves[solve_req[r].sha] # "pending"
    /\ Respond(IF solves[solve_req[r].sha] = "done" THEN "200" ELSE "500",
               solve_req[r].gate)
    /\ solve_req' = [solve_req EXCEPT ![r] = NoSolveRequest]
    /\ UNCHANGED <<solves, offSolve>>

(* The solve task run by the worker *)
task_solve(sha, ok) ==
    /\ sha \in DOMAIN solves
    /\ solves[sha] = "pending"
    /\ solves' = [solves EXCEPT ![sha] = IF ok THEN "done" ELSE "failed"]
    /\ UNCHANGED <<solve_req, response, gate, offSolve>>

(* GET /channel/: the catalog is listed for any caller *)
api_list_channels(c) ==
    /\ Respond("200", "none")
    /\ UNCHANGED <<solveVars, offSolve>>

(* GET /package/: the catalog is listed for any caller *)
api_list_packages(c) ==
    /\ Respond("200", "none")
    /\ UNCHANGED <<solveVars, offSolve>>

SolveNext ==
    \/ \E r \in Slots, c \in Callers, sha \in SolveHashes \cup {InvalidSolve} :
          api_get_specification(r, c, sha)
    \/ \E r \in Slots : api_get_specification_return(r)
    \/ \E sha \in SolveHashes, ok \in BOOLEAN : task_solve(sha, ok)
    \/ \E c \in Callers : api_list_channels(c)
    \/ \E c \in Callers : api_list_packages(c)

SolveSpec == Init /\ [][SolveNext]_vars

----------------------------------------------------------------------------
(* POST /token/ *)

offToken == <<buildVars, cancel, kvstore, solveVars, roleVars, registryVars, listing>>

(* timedelta(days=1), in the unit of the clock *)
OneDay == 1

(* The role bindings a request may ask for; NoBindings is a request        *)
(* without role_bindings                                                    *)
RequestedBindings ==
    {NoBindings,
     [p \in {<<"ns1", "*">>} |-> {Developer}],
     [p \in {<<"ns1", "*">>} |-> {Viewer}],
     [p \in {<<"ns1", "env1">>} |-> {Developer}],
     [p \in {<<"*", "*">>} |-> {Admin}],
     [p \in {<<"*", "env1">>} |-> {Viewer}]}

(* The expirations a request may ask for; NoExpiration is a request        *)
(* without expiration                                                       *)
NoExpiration == -1
RequestedExpirations == {NoExpiration} \cup (1..(MaxTime + OneDay))

(* The permissions of all the roles of all the bindings, whatever the       *)
(* pattern                                                                  *)
FlattenedPermissions(bindings) ==
    UNION {RolePermissions(role) : role \in UNION {bindings[p] : p \in DOMAIN bindings}}

(* The comparison of the flattened unions of the permissions only *)
is_subset_flattened_permissions(entity, new_entity) ==
    FlattenedPermissions(new_entity.role_bindings)
        \subseteq FlattenedPermissions(get_entity_bindings(entity))

(* is_subset_entity_permissions(entity, new_entity): for every pattern of  *)
(* the new bindings, the permissions of its roles are contained in the     *)
(* permissions the entity's bindings give on that pattern                  *)
is_subset_entity_permissions(entity, new_entity) ==
    \A p \in DOMAIN new_entity.role_bindings :
        UNION {RolePermissions(role) : role \in new_entity.role_bindings[p]}
            \subseteq BindingPermissions(get_entity_bindings(entity), p)

(* The entity of a request to POST /token/: the unauthenticated caller, a  *)
(* login, or a token minted earlier that has not expired                   *)
TokenEntities ==
    {Entity(c) : c \in Callers} \cup {t.token : t \in {u \in tokens : u.token.exp >= now}}

(* The entity of a request without entity as it would be if it were given *)
(* the bindings of a login                                                  *)
entity_with_login_bindings(request_entity) == IF request_entity = NoEntity THEN Token(now + OneDay, DefaultNamespace, Entity("dev").role_bindings) ELSE request_entity

(* The entity api_post_token works with: for a request without entity, a  *)
(* token of one day with no role bindings                                   *)
EntityOrAnonymous(request_entity) ==
    IF request_entity = NoEntity
    THEN Token(now + OneDay, DefaultNamespace, NoBindings)
    ELSE request_entity

(* The token asked for: every field the request leaves out is taken from   *)
(* the entity                                                               *)
NewEntity(entity, primary_namespace, expiration, role_bindings) ==
    Token(IF expiration # NoExpiration THEN expiration ELSE entity.exp,
          IF primary_namespace # None THEN primary_namespace
                                      ELSE entity.primary_namespace,
          IF role_bindings # NoBindings THEN role_bindings
                                        ELSE get_entity_bindings(entity))

(* api_post_token without the comparison of the expirations *)
post_token_without_expiration_check(request_entity, primary_namespace, expiration, role_bindings) ==
    LET entity == EntityOrAnonymous(request_entity)
        new_entity == NewEntity(entity, primary_namespace, expiration, role_bindings)
    IN
    /\ Cardinality(tokens) < MaxTokens
    /\ IF ~is_subset_entity_permissions(entity, new_entity)
       THEN /\ Respond("400", "is_subset_entity_permissions")
            /\ UNCHANGED <<tokenVars, offToken>>
       ELSE /\ tokens' = tokens \cup {[token |-> new_entity, issuer |-> entity]}
            /\ Respond("200", "is_subset_entity_permissions")
            /\ UNCHANGED <<now, offToken>>

api_post_token(request_entity, primary_namespace, expiration, role_bindings) ==
    LET entity == EntityOrAnonymous(request_entity)
        new_entity == NewEntity(entity, primary_namespace, expiration, role_bindings)
    IN
    /\ Cardinality(tokens) < MaxTokens
    /\ IF ~is_subset_entity_permissions(entity, new_entity)
       THEN /\ Respond("400", "is_subset_entity_permissions")
            /\ UNCHANGED <<tokenVars, offToken>>
       ELSE IF new_entity.exp > entity.exp
       THEN /\ Respond("400", "is_subset_entity_permissions")
            /\ UNCHANGED <<tokenVars, offToken>>
       ELSE /\ tokens' = tokens \cup {[token |-> new_entity, issuer |-> entity]}
            /\ Respond("200", "is_subset_entity_permissions")
            /\ UNCHANGED <<now, offToken>>

(* datetime.now() advances *)
Tick ==
    /\ now < MaxTime
    /\ now' = now + 1
    /\ UNCHANGED <<tokens, response, gate, offToken>>

TokenNext ==
    \/ \E e \in TokenEntities, pn \in {None, "ns1"},
          ex \in RequestedExpirations, rb \in RequestedBindings :
          api_post_token(e, pn, ex, rb)
    \/ Tick

TokenSpec == Init /\ [][TokenNext]_vars

----------------------------------------------------------------------------
(* POST, PUT and DELETE /namespace/{namespace}/role *)

offRole == <<buildVars, cancel, kvstore, solveVars, tokenVars, registryVars, listing>>

MaxRoleMappings == 3

(* The namespaces that exist, and the namespaces a role mapping request   *)
(* names in its path; "nsX" is never created                                *)
RoleNamespaces == {"ns1", "ns2"}
RequestNamespaces == {"ns1", "nsX"}

(* The role names a request may carry *)
RequestRoles == {"admin", "editor", "developer", "invalid-role"}

(* StoredRole as it would be if the role were stored under the name given *)
stored_role_as_named(role) == role

(* The role the mapping stores: editor is stored as developer *)
StoredRole(role) == IF role = "editor" THEN Developer ELSE role

(* ValidRole as it would be if the role were not validated *)
any_role_is_valid(role) == TRUE

(* RoleMappingV2.role is validated against the known roles *)
ValidRole(role) == StoredRole(role) \in Roles

(* The rows of the unique key (namespace_id, other_namespace_id) *)
Mapped(namespace, other) ==
    {m \in role_mappings : m.namespace = namespace /\ m.other = other}

(* The error a request ends with when the commit violates the unique       *)
(* constraint: the raw error of the database, and the typed error          *)
IntegrityError == "IntegrityError"
DuplicateError == "DuplicateError"

RoleInit ==
    /\ namespaces = RoleNamespaces
    /\ environments = {}
    /\ current_build = [e \in {} |-> 0]
    /\ builds = [b \in {} |-> 0]
    /\ next_build_id = 1
    /\ tasks = {}
    /\ cleanups = {}
    /\ storage = {}
    /\ cancel = Idle
    /\ response = "none"
    /\ gate = "none"
    /\ solves = [h \in {} |-> "pending"]
    /\ solve_req = [r \in Slots |-> NoSolveRequest]
    /\ tokens = {}
    /\ now = 0
    /\ role_mappings = {}
    /\ next_role_id = 1
    /\ sessions = [r \in Slots |-> NoSession]
    /\ RegistryEmpty

(* api_create_namespace_role up to api.create_namespace_role: the request  *)
(* is authorized, the namespace is looked up, the role is validated and    *)
(* the new row is added to the session of the request                      *)
api_create_namespace_role(r, c, namespace, other, role) ==
    /\ sessions[r].pc = "idle"
    /\ IF ~Authorized(c, <<namespace, "">>,
                      {"NAMESPACE_READ", "NAMESPACE_ROLE_MAPPING_CREATE"})
       THEN /\ Respond("403", "authorize_request")
            /\ UNCHANGED <<roleVars, offRole>>
       ELSE IF namespace \notin namespaces
       THEN /\ Respond("404", "authorize_request")
            /\ UNCHANGED <<roleVars, offRole>>
       ELSE IF ~ValidRole(role)
       THEN /\ Respond("400", "authorize_request")
            /\ UNCHANGED <<roleVars, offRole>>
       ELSE /\ sessions' = [sessions EXCEPT ![r] =
                               [pc |-> "commit", namespace |-> namespace,
                                other |-> other, role |-> StoredRole(role)]]
            /\ UNCHANGED <<role_mappings, next_role_id, response, gate, offRole>>

(* The commit whose violation of the constraint aborts the transaction of  *)
(* the mappings made before: none of them is left                           *)
commit_conflict_drops_mappings(r) ==
    /\ sessions[r].pc = "commit"
    /\ next_role_id <= MaxRoleMappings
    /\ sessions' = [sessions EXCEPT ![r] = NoSession]
    /\ IF Mapped(sessions[r].namespace, sessions[r].other) # {}
       THEN /\ Respond(IntegrityError, "authorize_request")
            /\ role_mappings' = {m \in role_mappings :
                                    m.namespace # sessions[r].namespace}
            /\ UNCHANGED <<next_role_id, offRole>>
       ELSE /\ role_mappings' = role_mappings \cup
                                   {[id |-> next_role_id,
                                     namespace |-> sessions[r].namespace,
                                     other |-> sessions[r].other,
                                     role |-> sessions[r].role]}
            /\ next_role_id' = next_role_id + 1
            /\ Respond("200", "authorize_request")
            /\ UNCHANGED offRole

(* db.commit() of api_create_namespace_role: the row is inserted unless    *)
(* the unique constraint fails; the handler catches ValueError only, so    *)
(* the error of the database leaves the handler as it is                   *)
api_create_namespace_role_commit(r) ==
    /\ sessions[r].pc = "commit"
    /\ next_role_id <= MaxRoleMappings
    /\ sessions' = [sessions EXCEPT ![r] = NoSession]
    /\ IF Mapped(sessions[r].namespace, sessions[r].other) # {}
       THEN /\ Respond(IntegrityError, "authorize_request")
            /\ UNCHANGED <<role_mappings, next_role_id, offRole>>
       ELSE /\ role_mappings' = role_mappings \cup
                                   {[id |-> next_role_id,
                                     namespace |-> sessions[r].namespace,
                                     other |-> sessions[r].other,
                                     role |-> sessions[r].role]}
            /\ next_role_id' = next_role_id + 1
            /\ Respond("200", "authorize_request")
            /\ UNCHANGED offRole

(* PUT: the role of the mapping is replaced in place; ValueError when the  *)
(* role is invalid or the mapping does not exist                           *)
api_update_namespace_role(c, namespace, other, role) ==
    /\ IF ~Authorized(c, <<namespace, "">>,
                      {"NAMESPACE_READ", "NAMESPACE_ROLE_MAPPING_UPDATE"})
       THEN /\ Respond("403", "authorize_request")
            /\ UNCHANGED <<roleVars, offRole>>
       ELSE IF namespace \notin namespaces
       THEN /\ Respond("404", "authorize_request")
            /\ UNCHANGED <<roleVars, offRole>>
       ELSE IF ~ValidRole(role) \/ Mapped(namespace, other) = {}
       THEN /\ Respond("400", "authorize_request")
            /\ UNCHANGED <<roleVars, offRole>>
       ELSE /\ role_mappings' =
                  (role_mappings \ Mapped(namespace, other)) \cup
                  {[m EXCEPT !.role = StoredRole(role)] : m \in Mapped(namespace, other)}
            /\ Respond("200", "authorize_request")
            /\ UNCHANGED <<next_role_id, sessions, offRole>>

(* api_delete_namespace_role as it would be if the delete addressed the   *)
(* namespace only                                                           *)
delete_role_of_every_other_namespace(c, namespace, other) ==
    /\ IF ~Authorized(c, <<namespace, "">>,
                      {"NAMESPACE_READ", "NAMESPACE_ROLE_MAPPING_DELETE"})
       THEN /\ Respond("403", "authorize_request")
            /\ UNCHANGED <<roleVars, offRole>>
       ELSE IF namespace \notin namespaces
       THEN /\ Respond("404", "authorize_request")
            /\ UNCHANGED <<roleVars, offRole>>
       ELSE IF Mapped(namespace, other) = {}
       THEN /\ Respond("400", "authorize_request")
            /\ UNCHANGED <<roleVars, offRole>>
       ELSE /\ role_mappings' = {m \in role_mappings : m.namespace # namespace}
            /\ Respond("200", "authorize_request")
            /\ UNCHANGED <<next_role_id, sessions, offRole>>

(* DELETE: the mapping is removed; ValueError when it does not exist *)
api_delete_namespace_role(c, namespace, other) ==
    /\ IF ~Authorized(c, <<namespace, "">>,
                      {"NAMESPACE_READ", "NAMESPACE_ROLE_MAPPING_DELETE"})
       THEN /\ Respond("403", "authorize_request")
            /\ UNCHANGED <<roleVars, offRole>>
       ELSE IF namespace \notin namespaces
       THEN /\ Respond("404", "authorize_request")
            /\ UNCHANGED <<roleVars, offRole>>
       ELSE IF Mapped(namespace, other) = {}
       THEN /\ Respond("400", "authorize_request")
            /\ UNCHANGED <<roleVars, offRole>>
       ELSE /\ role_mappings' = role_mappings \ Mapped(namespace, other)
            /\ Respond("200", "authorize_request")
            /\ UNCHANGED <<next_role_id, sessions, offRole>>

RoleNext ==
    \/ \E r \in Slots, c \in Callers, ns \in RequestNamespaces,
          other \in RoleNamespaces, role \in RequestRoles :
          api_create_namespace_role(r, c, ns, other, role)
    \/ \E r \in Slots : api_create_namespace_role_commit(r)
    \/ \E c \in Callers, ns \in RequestNamespaces, other \in RoleNamespaces,
          role \in RequestRoles : api_update_namespace_role(c, ns, other, role)
    \/ \E c \in Callers, ns \in RequestNamespaces, other \in RoleNamespaces :
          api_delete_namespace_role(c, ns, other)

RoleSpec == RoleInit /\ [][RoleNext]_vars

(* The rows of a table in the order of their ids *)
RECURSIVE ById(_)
ById(rows) ==
    IF rows = {} THEN <<>>
    ELSE LET first == CHOOSE m \in rows : \A n \in rows : m.id <= n.id
         IN <<first>> \o ById(rows \ {first})

(* get_namespace_roles as it would be if the newest mapping came first *)
get_namespace_roles_newest_first(namespace) ==
    LET rows == ById({m \in role_mappings : m.namespace = namespace})
    IN [i \in 1..Len(rows) |-> rows[Len(rows) + 1 - i]]

(* api.get_namespace_roles(db, namespace): the role mappings of the        *)
(* namespace                                                                *)
get_namespace_roles(namespace) ==
    ById({m \in role_mappings : m.namespace = namespace})

(* GET /namespace/{namespace}/roles *)
api_get_namespace_roles(c, namespace) ==
    /\ IF ~Authorized(c, <<namespace, "">>,
                      {"NAMESPACE_READ", "NAMESPACE_ROLE_MAPPING_READ"})
       THEN /\ Respond("403", "authorize_request")
            /\ UNCHANGED listing
       ELSE IF namespace \notin namespaces
       THEN /\ Respond("404", "authorize_request")
            /\ UNCHANGED listing
       ELSE /\ Respond("200", "authorize_request")
            /\ listing' = [caller |-> c, kind |-> "role",
                           rows |-> get_namespace_roles(namespace),
                           count |-> Len(get_namespace_roles(namespace))]
    /\ UNCHANGED <<roleVars, buildVars, cancel, kvstore, solveVars, tokenVars, registryVars>>


(* Namespace and environment registry: /namespace/{namespace}/ and the     *)
(* registry operations of conda_store_server.api                           *)

offRegistry == <<environments, current_build, builds, next_build_id, tasks,
                 cleanups, storage, cancel, kvstore, solveVars, tokenVars>>

MaxNamespaceRows == 3
MaxEnvironmentRows == 2

(* The names the registry requests carry; "ns!" is a name that             *)
(* api.create_namespace refuses with ValueError                            *)
RegistryNames == {"ns1", "ns2"}
InvalidName == "ns!"
EnvironmentNames == {"env1"}

Namespace(id, name) ==
    [id |-> id, name |-> name, deleted |-> FALSE, metadata |-> ""]

Environment(id, namespace_id, name) ==
    [id |-> id, namespace_id |-> namespace_id, name |-> name, deleted |-> FALSE]

(* The names held by the rows of the namespace table *)
Names(rows) == {n.name : n \in rows}

(* list_namespaces as it would be if show_soft_deleted were ignored *)
list_namespaces_with_deleted(show_soft_deleted) == namespace_rows

(* api.list_namespaces(db, show_soft_deleted) *)
list_namespaces(show_soft_deleted) ==
    {n \in namespace_rows : show_soft_deleted \/ ~n.deleted}

(* api.get_namespace(db, name, show_soft_deleted): the rows found, none    *)
(* for None                                                                 *)
get_namespace(name, show_soft_deleted) ==
    {n \in list_namespaces(show_soft_deleted) : n.name = name}

(* api.get_namespace(db, namespace) as the handlers other than             *)
(* api_get_namespace call it: without show_soft_deleted=False, the lookup  *)
(* is not narrowed to the rows that are not soft-deleted                   *)
ShowSoftDeletedDefault == TRUE

(* api.list_environments(db, show_soft_deleted) *)
list_environments(show_soft_deleted) ==
    {e \in environment_rows : show_soft_deleted \/ ~e.deleted}

(* The state of the registry tests and requests start from: namespace ns1  *)
(* with one role mapping                                                    *)
RegistryInit ==
    /\ namespaces = {"ns1"}
    /\ environments = {}
    /\ current_build = [e \in {} |-> 0]
    /\ builds = [b \in {} |-> 0]
    /\ next_build_id = 1
    /\ tasks = {}
    /\ cleanups = {}
    /\ storage = {}
    /\ cancel = Idle
    /\ response = "none"
    /\ gate = "none"
    /\ solves = [h \in {} |-> "pending"]
    /\ solve_req = [r \in Slots |-> NoSolveRequest]
    /\ tokens = {}
    /\ now = 0
    /\ role_mappings = {[id |-> 1, namespace |-> "ns1", other |-> "ns2",
                         role |-> Viewer]}
    /\ next_role_id = 2
    /\ sessions = [r \in Slots |-> NoSession]
    /\ namespace_rows = {Namespace(1, "ns1")}
    /\ next_namespace_id = 2
    /\ environment_rows = {}
    /\ next_environment_id = 1
    /\ create_req = [r \in Slots |-> NoCreate]
    /\ listing = NoListing
    /\ kvstore = NoSettings

(* A registry request that changes no table *)
RegistryUnchanged ==
    UNCHANGED <<namespaces, role_mappings, next_role_id, sessions,
                registryVars, listing, offRegistry>>

(* POST /namespace/{namespace}/ up to api.create_namespace: the request is *)
(* authorized, the name is looked up, and the new row is added to the      *)
(* session of the request                                                   *)
api_create_namespace(r, c, namespace) ==
    /\ create_req[r].pc = "idle"
    /\ IF ~Authorized(c, <<namespace, "">>, {"NAMESPACE_CREATE"})
       THEN /\ Respond("403", "authorize_request")
            /\ RegistryUnchanged
       ELSE IF get_namespace(namespace, ShowSoftDeletedDefault) # {}
       THEN /\ Respond("409", "authorize_request")
            /\ RegistryUnchanged
       ELSE IF namespace = InvalidName
       THEN /\ Respond("400", "authorize_request")
            /\ RegistryUnchanged
       ELSE /\ create_req' = [create_req EXCEPT ![r] =
                                 [pc |-> "commit", name |-> namespace]]
            /\ UNCHANGED <<namespaces, role_mappings, next_role_id, sessions,
                           namespace_rows, next_namespace_id, environment_rows,
                           next_environment_id, listing, response, gate,
                           offRegistry>>

(* db.commit() of api_create_namespace: the row is inserted unless a row   *)
(* that is not soft-deleted holds the name; the handler catches ValueError *)
(* only, so the error of the database leaves the handler as it is          *)
api_create_namespace_commit(r) ==
    /\ create_req[r].pc = "commit"
    /\ next_namespace_id <= MaxNamespaceRows
    /\ create_req' = [create_req EXCEPT ![r] = NoCreate]
    /\ IF get_namespace(create_req[r].name, FALSE) # {}
       THEN /\ Respond(IntegrityError, "authorize_request")
            /\ UNCHANGED <<namespaces, role_mappings, next_role_id, sessions,
                           namespace_rows, next_namespace_id, environment_rows,
                           next_environment_id, listing, offRegistry>>
       ELSE /\ namespace_rows' = namespace_rows \cup
                                    {Namespace(next_namespace_id, create_req[r].name)}
            /\ namespaces' = Names(namespace_rows')
            /\ next_namespace_id' = next_namespace_id + 1
            /\ Respond("200", "authorize_request")
            /\ UNCHANGED <<role_mappings, next_role_id, sessions,
                           environment_rows, next_environment_id, listing,
                           offRegistry>>

(* conda_store.delete_namespace: the namespace and its environments are    *)
(* marked deleted                                                           *)
soft_delete_namespace(name) ==
    LET ids == {n.id : n \in get_namespace(name, ShowSoftDeletedDefault)} IN
    /\ namespace_rows' = {IF n.id \in ids THEN [n EXCEPT !.deleted = TRUE] ELSE n :
                             n \in namespace_rows}
    /\ environment_rows' = {IF e.namespace_id \in ids
                            THEN [e EXCEPT !.deleted = TRUE] ELSE e :
                               e \in environment_rows}

(* DELETE /namespace/{namespace}/ *)
api_delete_namespace(c, namespace) ==
    IF ~Authorized(c, <<namespace, "">>, {"NAMESPACE_DELETE"})
    THEN /\ Respond("403", "authorize_request")
         /\ RegistryUnchanged
    ELSE IF get_namespace(namespace, ShowSoftDeletedDefault) = {}
    THEN /\ Respond("404", "authorize_request")
         /\ RegistryUnchanged
    ELSE \/ /\ soft_delete_namespace(namespace)
            /\ Respond("200", "authorize_request")
            /\ UNCHANGED <<namespaces, role_mappings, next_role_id, sessions,
                           next_namespace_id, next_environment_id, create_req,
                           listing, offRegistry>>
         \/ /\ Respond("400", "authorize_request")
            /\ RegistryUnchanged

(* What a registry operation hands back: the row, as a listing of one *)
Returned(rows) ==
    [caller |-> None, kind |-> "row", rows |-> rows, count |-> Cardinality(rows)]

(* GET /namespace/{namespace}/: the namespace that is not soft-deleted *)
api_get_namespace(c, namespace) ==
    /\ IF ~Authorized(c, <<namespace, "">>, {"NAMESPACE_READ"})
       THEN Respond("403", "authorize_request")
       ELSE IF get_namespace(namespace, FALSE) = {}
       THEN Respond("404", "authorize_request")
       ELSE Respond("200", "authorize_request")
    /\ UNCHANGED <<namespaces, role_mappings, next_role_id, sessions,
                   registryVars, listing, offRegistry>>

(* PUT /namespace/{namespace}/: metadata and role mappings are replaced;   *)
(* ValueError of api.update_namespace is answered 400                      *)
api_update_namespace(c, namespace, metadata) ==
    IF ~Authorized(c, <<namespace, "">>,
                   {"NAMESPACE_UPDATE", "NAMESPACE_ROLE_MAPPING_CREATE",
                    "NAMESPACE_ROLE_MAPPING_DELETE"})
    THEN /\ Respond("403", "authorize_request")
         /\ RegistryUnchanged
    ELSE IF get_namespace(namespace, ShowSoftDeletedDefault) = {}
    THEN /\ Respond("404", "authorize_request")
         /\ RegistryUnchanged
    ELSE \/ /\ namespace_rows' =
                  {IF n.name = namespace THEN [n EXCEPT !.metadata = metadata] ELSE n :
                      n \in namespace_rows}
            /\ Respond("200", "authorize_request")
            /\ UNCHANGED <<namespaces, role_mappings, next_role_id, sessions,
                           next_namespace_id, environment_rows,
                           next_environment_id, create_req, listing, offRegistry>>
         \/ /\ Respond("400", "authorize_request")
            /\ RegistryUnchanged

(* DELETE /namespace/{namespace}/roles: every role mapping of the          *)
(* namespace is removed                                                     *)
api_delete_namespace_roles(c, namespace) ==
    IF ~Authorized(c, <<namespace, "">>,
                   {"NAMESPACE_READ", "NAMESPACE_ROLE_MAPPING_DELETE"})
    THEN /\ Respond("403", "authorize_request")
         /\ RegistryUnchanged
    ELSE IF get_namespace(namespace, ShowSoftDeletedDefault) = {}
    THEN /\ Respond("404", "authorize_request")
         /\ RegistryUnchanged
    ELSE \/ /\ role_mappings' = {m \in role_mappings : m.namespace # namespace}
            /\ Respond("200", "authorize_request")
            /\ UNCHANGED <<namespaces, next_role_id, sessions, registryVars,
                           listing, offRegistry>>
         \/ /\ Respond("400", "authorize_request")
            /\ RegistryUnchanged

(* api.delete_namespace(db, id): the row is removed, and with it the       *)
(* environments of the namespace                                            *)
delete_namespace(id) ==
    /\ \E n \in namespace_rows : n.id = id
    /\ namespace_rows' = {n \in namespace_rows : n.id # id}
    /\ environment_rows' = {e \in environment_rows : e.namespace_id # id}
    /\ namespaces' = Names(namespace_rows')
    /\ UNCHANGED <<role_mappings, next_role_id, sessions, next_namespace_id,
                   next_environment_id, create_req, listing, response, gate,
                   offRegistry>>

(* ensure_namespace without the lookup: a row is created at every call *)
ensure_namespace_always_creates(name) ==
    /\ next_namespace_id <= MaxNamespaceRows
    /\ namespace_rows' = namespace_rows \cup {Namespace(next_namespace_id, name)}
    /\ namespaces' = Names(namespace_rows')
    /\ next_namespace_id' = next_namespace_id + 1
    /\ listing' = Returned({Namespace(next_namespace_id, name)})
    /\ UNCHANGED <<role_mappings, next_role_id, sessions, environment_rows,
                   next_environment_id, create_req, response, gate, offRegistry>>

(* api.ensure_namespace(db, name): the namespace of that name, created     *)
(* when there is none                                                       *)
ensure_namespace(name) ==
    LET found == get_namespace(name, FALSE) IN
    /\ IF found # {}
       THEN /\ listing' = Returned(found)
            /\ UNCHANGED <<namespaces, namespace_rows, next_namespace_id>>
       ELSE /\ next_namespace_id <= MaxNamespaceRows
            /\ namespace_rows' = namespace_rows \cup
                                    {Namespace(next_namespace_id, name)}
            /\ namespaces' = Names(namespace_rows')
            /\ next_namespace_id' = next_namespace_id + 1
            /\ listing' = Returned({Namespace(next_namespace_id, name)})
    /\ UNCHANGED <<role_mappings, next_role_id, sessions, environment_rows,
                   next_environment_id, create_req, response, gate, offRegistry>>

(* The environments of a namespace with a name, soft-deleted ones left out *)
get_environment(namespace_id, name) ==
    {e \in list_environments(FALSE) : e.namespace_id = namespace_id /\ e.name = name}

(* api.ensure_environment(db, name, namespace_id): the environment of that *)
(* name in the namespace, created when there is none                       *)
ensure_environment(name, namespace_id) ==
    LET found == get_environment(namespace_id, name) IN
    /\ \E n \in namespace_rows : n.id = namespace_id
    /\ IF found # {}
       THEN /\ listing' = Returned(found)
            /\ UNCHANGED <<environment_rows, next_environment_id>>
       ELSE /\ next_environment_id <= MaxEnvironmentRows
            /\ environment_rows' = environment_rows \cup
                  {Environment(next_environment_id, namespace_id, name)}
            /\ next_environment_id' = next_environment_id + 1
            /\ listing' = Returned({Environment(next_environment_id, namespace_id, name)})
    /\ UNCHANGED <<namespaces, role_mappings, next_role_id, sessions,
                   namespace_rows, next_namespace_id, create_req, response, gate,
                   offRegistry>>

RegistryNext ==
    \/ \E r \in Slots, c \in Callers, ns \in RegistryNames \cup {InvalidName} :
          api_create_namespace(r, c, ns)
    \/ \E r \in Slots : api_create_namespace_commit(r)
    \/ \E c \in Callers, ns \in RegistryNames : api_delete_namespace(c, ns)
    \/ \E c \in Callers, ns \in RegistryNames : api_get_namespace(c, ns)
    \/ \E c \in Callers, ns \in RegistryNames : api_update_namespace(c, ns, "m")
    \/ \E c \in Callers, ns \in RegistryNames : api_delete_namespace_roles(c, ns)

RegistrySpec == RegistryInit /\ [][RegistryNext]_vars

(* The registry operations as the tests call them, next to the deletion    *)
(* of a namespace through its endpoint                                      *)
EnsureNext ==
    \/ \E ns \in RegistryNames : ensure_namespace(ns)
    \/ \E name \in EnvironmentNames, id \in 1..MaxNamespaceRows :
          ensure_environment(name, id)
    \/ \E id \in 1..MaxNamespaceRows : delete_namespace(id)
    \/ \E c \in Callers, ns \in RegistryNames : api_delete_namespace(c, ns)

EnsureSpec == RegistryInit /\ [][EnsureNext]_vars

(* The role mappings as test_namespace_role_mapping_v2 leaves them after   *)
(* its creations: three mappings with the ids 1, 2, 3, two of them of the  *)
(* namespace the requests address                                           *)
RoleListInit ==
    /\ namespaces = RoleNamespaces
    /\ environments = {}
    /\ current_build = [e \in {} |-> 0]
    /\ builds = [b \in {} |-> 0]
    /\ next_build_id = 1
    /\ tasks = {}
    /\ cleanups = {}
    /\ storage = {}
    /\ cancel = Idle
    /\ response = "none"
    /\ gate = "none"
    /\ solves = [h \in {} |-> "pending"]
    /\ solve_req = [r \in Slots |-> NoSolveRequest]
    /\ tokens = {}
    /\ now = 0
    /\ role_mappings = {[id |-> 1, namespace |-> "ns1", other |-> "ns2", role |-> Admin],
                        [id |-> 2, namespace |-> "ns2", other |-> "ns1", role |-> Admin],
                        [id |-> 3, namespace |-> "ns1", other |-> "ns1", role |-> Viewer]}
    /\ next_role_id = 4
    /\ sessions = [r \in Slots |-> NoSession]
    /\ namespace_rows = {Namespace(1, "ns1"), Namespace(2, "ns2")}
    /\ next_namespace_id = 3
    /\ environment_rows = {}
    /\ next_environment_id = 1
    /\ create_req = [r \in Slots |-> NoCreate]
    /\ listing = NoListing
    /\ kvstore = NoSettings

(* PUT, DELETE and GET on the role mappings of a namespace *)
RoleListNext ==
    \/ \E c \in Callers, ns \in RequestNamespaces, other \in RoleNamespaces,
          role \in RequestRoles : api_update_namespace_role(c, ns, other, role)
    \/ \E c \in Callers, ns \in RequestNamespaces, other \in RoleNamespaces :
          api_delete_namespace_role(c, ns, other)
    \/ \E c \in Callers, ns \in RequestNamespaces : api_delete_namespace_roles(c, ns)
    \/ \E c \in Callers, ns \in RequestNamespaces : api_get_namespace_roles(c, ns)

RoleListSpec == RoleListInit /\ [][RoleListNext]_vars

----------------------------------------------------------------------------
(* Listings: GET /namespace/, GET /build/ and GET /usage/ *)

(* The namespaces and the environments of the builds a listing may meet *)
ListedNames == <<DefaultNamespace, "ns1", "ns2">>
ListNamespaces ==
    {[Namespace(i, ListedNames[i]) EXCEPT !.deleted = d] :
        i \in DOMAIN ListedNames, d \in BOOLEAN}

(* limit and offset of paginated_args *)
PageLimits == {1, 10}
PageOffsets == {0, 1}

(* A database to list from: namespaces, some soft-deleted, and builds in   *)
(* environments of these namespaces                                         *)
ListInit ==
    /\ namespace_rows \in {rows \in SUBSET ListNamespaces :
                              \A m, n \in rows : m.id = n.id => m = n}
    /\ namespaces = Names(namespace_rows)
    /\ next_namespace_id = Len(ListedNames) + 1
    /\ \E ids \in {1..k : k \in 0..MaxBuilds} :
          builds \in [ids -> {NewBuild(<<ns, "env1">>, "h1") : ns \in namespaces}]
    /\ environments = {builds[b].env : b \in DOMAIN builds}
    /\ current_build = [e \in environments |-> 0]
    /\ next_build_id = Cardinality(DOMAIN builds) + 1
    /\ tasks = {}
    /\ cleanups = {}
    /\ storage = {}
    /\ cancel = Idle
    /\ response = "none"
    /\ gate = "none"
    /\ solves = [h \in {} |-> "pending"]
    /\ solve_req = [r \in Slots |-> NoSolveRequest]
    /\ tokens = {}
    /\ now = 0
    /\ role_mappings = {}
    /\ next_role_id = 1
    /\ sessions = [r \in Slots |-> NoSession]
    /\ environment_rows = {}
    /\ next_environment_id = 1
    /\ create_req = [r \in Slots |-> NoCreate]
    /\ listing = NoListing
    /\ kvstore = NoSettings

(* auth.filter_namespaces(entity, query): the rows of namespaces the       *)
(* caller's bindings give NAMESPACE_READ on                                 *)
filter_namespaces(c, query) ==
    {n \in query : "NAMESPACE_READ" \in entity_permissions[c][<<n.name, "">>]}

(* auth.filter_builds(entity, query): the builds of environments the       *)
(* caller's bindings give ENVIRONMENT_READ on                               *)
filter_builds(c, query) ==
    {b \in query : "ENVIRONMENT_READ" \in entity_permissions[c][builds[b].env]}

(* Position of a namespace name in the order by name *)
NameRank(name) == CHOOSE i \in DOMAIN ListedNames : ListedNames[i] = name

(* query.order_by(key).limit(limit).offset(offset).all() *)
Page(query, key, limit, offset) ==
    {x \in query :
        LET position == Cardinality({y \in query : key[y] <= key[x]})
        IN offset < position /\ position <= offset + limit}

(* paginated_api_response: the count of the query, and its page *)
paginated_api_response(c, kind, query, key, limit, offset) ==
    [caller |-> c, kind |-> kind, rows |-> Page(query, key, limit, offset),
     count |-> Cardinality(query)]

(* The sort keys of the listings: the name of a namespace, the id of a     *)
(* build                                                                    *)
NamespaceKey == [n \in ListNamespaces \cup namespace_rows |-> NameRank(n.name)]
BuildKey == [b \in BuildIds |-> b]

(* A listing changes no table *)
Lists(result) ==
    /\ listing' = result
    /\ Respond("200", "none")
    /\ UNCHANGED <<buildVars, cancel, kvstore, solveVars, tokenVars, roleVars, registryVars>>

(* GET /namespace/ without the filter on the caller's bindings *)
list_namespaces_unfiltered(c, limit, offset) ==
    Lists(paginated_api_response(c, "namespace", list_namespaces(FALSE),
                                 NamespaceKey, limit, offset))

(* GET /namespace/ *)
api_list_namespaces(c, limit, offset) ==
    Lists(paginated_api_response(c, "namespace",
                                 filter_namespaces(c, list_namespaces(FALSE)),
                                 NamespaceKey, limit, offset))

(* GET /build/: api.list_builds(db, ..., show_soft_deleted=True) *)
api_list_builds(c, limit, offset) ==
    Lists(paginated_api_response(c, "build", filter_builds(c, DOMAIN builds),
                                 BuildKey, limit, offset))

(* api.get_namespace_metrics(db): one row of usage per namespace *)
get_namespace_metrics ==
    {[name |-> n.name,
      num_builds |-> Cardinality({b \in DOMAIN builds : builds[b].env[1] = n.name})] :
        n \in namespace_rows}

(* GET /usage/ *)
api_get_usage(c) ==
    LET metrics == filter_namespaces(c, get_namespace_metrics) IN
    Lists([caller |-> c, kind |-> "usage", rows |-> metrics,
           count |-> Cardinality(metrics)])

ListNext ==
    \/ \E c \in Callers, limit \in PageLimits, offset \in PageOffsets :
          api_list_namespaces(c, limit, offset)
    \/ \E c \in Callers, limit \in PageLimits, offset \in PageOffsets :
          api_list_builds(c, limit, offset)
    \/ \E c \in Callers : api_get_usage(c)

ListSpec == ListInit /\ [][ListNext]_vars

(* Namespaces created, deleted through the endpoint and through the        *)
(* registry, fetched and listed                                             *)
NamespaceListNext ==
    \/ \E r \in Slots, c \in Callers, ns \in RegistryNames : api_create_namespace(r, c, ns)
    \/ \E r \in Slots : api_create_namespace_commit(r)
    \/ \E c \in Callers, ns \in RegistryNames : api_delete_namespace(c, ns)
    \/ \E id \in 1..MaxNamespaceRows : delete_namespace(id)
    \/ \E c \in Callers, ns \in RegistryNames : api_get_namespace(c, ns)
    \/ \E c \in Callers : api_list_namespaces(c, 10, 0)

NamespaceListSpec == RegistryInit /\ [][NamespaceListNext]_vars

----------------------------------------------------------------------------
(* api.list_environments(db, role_bindings=...) *)

(* The namespaces and environments of the database the listing is tested   *)
(* on: <<namespace, environment>>                                           *)
PopulatedNamespaces == <<"pytest1", "pytest2", "pytest3">>
PopulatedEnvironments ==
    <<<<1, "env1">>, <<2, "env2">>, <<3, "env3">>, <<3, "foo">>>>

(* The characters of the names and of the segments of the patterns *)
Chars ==
    [s \in {"pytest1", "pytest2", "pytest3", "env1", "env2", "env3", "foo",
            "*", "e*", "pytest*", "env*", "*1"} |->
        CASE s = "pytest1" -> <<"p", "y", "t", "e", "s", "t", "1">>
          [] s = "pytest2" -> <<"p", "y", "t", "e", "s", "t", "2">>
          [] s = "pytest3" -> <<"p", "y", "t", "e", "s", "t", "3">>
          [] s = "env1"    -> <<"e", "n", "v", "1">>
          [] s = "env2"    -> <<"e", "n", "v", "2">>
          [] s = "env3"    -> <<"e", "n", "v", "3">>
          [] s = "foo"     -> <<"f", "o", "o">>
          [] s = "*"       -> <<"*">>
          [] s = "e*"      -> <<"e", "*">>
          [] s = "pytest*" -> <<"p", "y", "t", "e", "s", "t", "*">>
          [] s = "env*"    -> <<"e", "n", "v", "*">>
          [] s = "*1"      -> <<"*", "1">>]

(* The patterns of the role bindings the listing is called with *)
BindingPatterns ==
    {<<"*", "env1">>, <<"pytest2", "*">>, <<"e*", "e*">>, <<"pytest3", "env3">>,
     <<"pytest*", "env*">>, <<"*", "*">>, <<"*1", "*">>}

(* role_bindings of one or two patterns *)
ListRoleBindings ==
    {[p \in ps |-> {Viewer}] :
        ps \in {qs \in SUBSET BindingPatterns : Cardinality(qs) \in {1, 2}}}

(* A segment of a pattern matched against a name: "*" stands for any run   *)
(* of characters                                                            *)
RECURSIVE Like(_, _)
Like(pattern, string) ==
    IF pattern = <<>> THEN string = <<>>
    ELSE IF Head(pattern) = "*"
    THEN \/ Like(Tail(pattern), string)
         \/ string # <<>> /\ Like(pattern, Tail(string))
    ELSE /\ string # <<>>
         /\ Head(pattern) = Head(string)
         /\ Like(Tail(pattern), Tail(string))

(* The name of the namespace of an environment row *)
NamespaceOf(e) == (CHOOSE n \in namespace_rows : n.id = e.namespace_id).name

(* The database of the tests, with any of its environments created *)
PopulatedInit ==
    /\ namespace_rows = {Namespace(i, PopulatedNamespaces[i]) :
                            i \in DOMAIN PopulatedNamespaces}
    /\ namespaces = Names(namespace_rows)
    /\ next_namespace_id = Len(PopulatedNamespaces) + 1
    /\ \E created \in SUBSET DOMAIN PopulatedEnvironments :
          environment_rows =
              {Environment(i, PopulatedEnvironments[i][1], PopulatedEnvironments[i][2]) :
                  i \in created}
    /\ next_environment_id = Len(PopulatedEnvironments) + 1
    /\ environments = {}
    /\ current_build = [e \in {} |-> 0]
    /\ builds = [b \in {} |-> 0]
    /\ next_build_id = 1
    /\ tasks = {}
    /\ cleanups = {}
    /\ storage = {}
    /\ cancel = Idle
    /\ response = "none"
    /\ gate = "none"
    /\ solves = [h \in {} |-> "pending"]
    /\ solve_req = [r \in Slots |-> NoSolveRequest]
    /\ tokens = {}
    /\ now = 0
    /\ role_mappings = {}
    /\ next_role_id = 1
    /\ sessions = [r \in Slots |-> NoSession]
    /\ create_req = [r \in Slots |-> NoCreate]
    /\ listing = NoListing
    /\ kvstore = NoSettings

(* The selection with "*" a wildcard only when it is the whole segment *)
selected_by_whole_segments(role_bindings) ==
    {e \in list_environments(FALSE) :
        \E p \in DOMAIN role_bindings :
            /\ SegmentMatch(p[1], NamespaceOf(e))
            /\ SegmentMatch(p[2], e.name)}

(* The environments selected by role bindings: namespace and name each     *)
(* match the segment of some pattern                                        *)
SelectedBy(role_bindings) ==
    {e \in list_environments(FALSE) :
        \E p \in DOMAIN role_bindings :
            /\ Like(Chars[p[1]], Chars[NamespaceOf(e)])
            /\ Like(Chars[p[2]], Chars[e.name])}

(* api.list_environments(db, role_bindings=role_bindings).all() *)
api_list_environments_role_bindings(role_bindings) ==
    /\ listing' = [caller |-> None, kind |-> "environment",
                   rows |-> SelectedBy(role_bindings),
                   count |-> Cardinality(SelectedBy(role_bindings)),
                   role_bindings |-> role_bindings]
    /\ UNCHANGED <<buildVars, cancel, kvstore, response, gate, solveVars, tokenVars,
                   roleVars, registryVars>>

PopulatedNext ==
    \E role_bindings \in ListRoleBindings :
        api_list_environments_role_bindings(role_bindings)

PopulatedSpec == PopulatedInit /\ [][PopulatedNext]_vars

----------------------------------------------------------------------------
(* The worker keeps running: a scheduled cleanup task is eventually run *)
FairSpec ==
    /\ Spec
    /\ \A b \in BuildIds :
          WF_vars(task_cleanup_builds([build_id |-> b, countdown |-> CleanupCountdown]))

----------------------------------------------------------------------------
(* The key-value store of conda_store_server.api, as test_api.py uses it *)

offSettings == <<buildVars, cancel, response, gate, solveVars, tokenVars,
                 roleVars, registryVars>>

(* The prefixes of test_get_set_keyvaluestore, "pytest", "pytest/1" and    *)
(* "pytest/1/2", each as the tuple of its segments                          *)
KvPrefixes == {<<"pytest">>, <<"pytest", "1">>, <<"pytest", "1", "2">>}
KvKeys == {"c", "d"}
KvValues == {1, 999}

(* The dictionaries a call may pass *)
KvDicts == UNION {[ks -> KvValues] : ks \in SUBSET KvKeys}

(* The rows of the store under a prefix *)
KvRows(prefix) == {k \in DOMAIN kvstore : k[1] = prefix}

(* set_kvstore_key_values as it would be if update=False were ignored *)
set_kvstore_always_overwrites(prefix, d, update) ==
    kvstore' = [k \in DOMAIN kvstore \cup {<<prefix, key>> : key \in DOMAIN d} |->
                   IF k[1] = prefix /\ k[2] \in DOMAIN d THEN d[k[2]] ELSE kvstore[k]]

(* api.set_kvstore_key_values(db, prefix, d, update): a key of d that has  *)
(* a row under the prefix takes the value of d when update is set and      *)
(* keeps its own otherwise; a key without a row gets one                    *)
set_kvstore_key_values(prefix, d, update) ==
    kvstore' = [k \in DOMAIN kvstore \cup {<<prefix, key>> : key \in DOMAIN d} |->
                   IF k \notin DOMAIN kvstore THEN d[k[2]]
                   ELSE IF update /\ k[1] = prefix /\ k[2] \in DOMAIN d THEN d[k[2]]
                   ELSE kvstore[k]]

(* p is a leading part of the prefix q *)
LeadingPart(p, q) == Len(p) <= Len(q) /\ SubSeq(q, 1, Len(p)) = p

(* get_kvstore_key_values as it would be if it returned the rows of every  *)
(* prefix that begins with the given one                                    *)
get_kvstore_key_values_below(prefix) ==
    LET rows == {k \in DOMAIN kvstore : LeadingPart(prefix, k[1])}
    IN [key \in {k[2] : k \in rows} |->
           kvstore[CHOOSE k \in rows : k[2] = key]]

(* api.get_kvstore_key_values(db, prefix): the pairs of the rows of the    *)
(* prefix                                                                   *)
get_kvstore_key_values(prefix) ==
    [key \in {k[2] : k \in KvRows(prefix)} |-> kvstore[<<prefix, key>>]]

(* api.get_kvstore_key(db, prefix, key): the value of the row, None when   *)
(* there is no row; the answer is a tuple that is empty for None           *)
get_kvstore_key(prefix, key) ==
    IF <<prefix, key>> \in DOMAIN kvstore THEN <<kvstore[<<prefix, key>>]>> ELSE <<>>

SetKeyValues(prefix, d, update) ==
    /\ set_kvstore_key_values(prefix, d, update)
    /\ UNCHANGED <<listing, offSettings>>

GetKeyValues(prefix) ==
    /\ listing' = [caller |-> None, kind |-> "kvstore", prefix |-> prefix,
                   rows |-> get_kvstore_key_values(prefix),
                   count |-> Cardinality(DOMAIN get_kvstore_key_values(prefix))]
    /\ UNCHANGED <<kvstore, offSettings>>

GetKey(prefix, key) ==
    /\ listing' = [caller |-> None, kind |-> "kvstore_key", prefix |-> prefix,
                   rows |-> get_kvstore_key(prefix, key),
                   count |-> Len(get_kvstore_key(prefix, key))]
    /\ UNCHANGED <<kvstore, offSettings>>

KvNext ==
    \/ \E prefix \in KvPrefixes, d \in KvDicts, update \in BOOLEAN :
          SetKeyValues(prefix, d, update)
    \/ \E prefix \in KvPrefixes : GetKeyValues(prefix)
    \/ \E prefix \in KvPrefixes, key \in KvKeys : GetKey(prefix, key)

KvSpec == Init /\ [][KvNext]_vars

----------------------------------------------------------------------------
(* Build.build_path(conda_store), as test_build_path_too_long calls it.    *)
(* A string is modelled by its length.                                      *)

(* "build_path too long: must be <= 255 characters" *)
MaxPathLength == 255
BuildPathError == "BuildPathError"

(* The lengths of config.store_directory ("A" * 800 in the test), of the   *)
(* name of the namespace and of the build key                               *)
StoreDirectoryLengths == {1, 100, 180, 181, 182, 183, 254, 255, 256, 800}
NamespaceLengths == {1, 6, 7, 64}
BuildKeyLengths == {8, 64, 65, 66}

(* The length of store_directory/namespace/build_key *)
PathLength(store_directory, namespace, build_key) ==
    store_directory + 1 + namespace + 1 + build_key

(* build_path as it would be if a path too long were cut at the limit *)
build_path_truncated(store_directory, namespace, build_key) ==
    LET n == PathLength(store_directory, namespace, build_key)
    IN [raised |-> None, length |-> IF n > MaxPathLength THEN MaxPathLength ELSE n]

(* build_path: the path, or BuildPathError when it is longer than the      *)
(* limit                                                                    *)
build_path(store_directory, namespace, build_key) ==
    LET n == PathLength(store_directory, namespace, build_key)
    IN IF n > MaxPathLength
       THEN [raised |-> BuildPathError, length |-> 0]
       ELSE [raised |-> None, length |-> n]

BuildPath(store_directory, namespace, build_key) ==
    /\ listing' = [caller |-> None, kind |-> "build_path",
                   store_directory |-> store_directory, namespace |-> namespace,
                   build_key |-> build_key,
                   rows |-> build_path(store_directory, namespace, build_key),
                   count |-> 1]
    /\ UNCHANGED <<kvstore, offSettings>>

BuildPathNext ==
    \E store_directory \in StoreDirectoryLengths, namespace \in NamespaceLengths,
       build_key \in BuildKeyLengths :
       BuildPath(store_directory, namespace, build_key)

BuildPathSpec == Init /\ [][BuildPathNext]_vars

----------------------------------------------------------------------------
(* conda_store.register_environment called with and without force *)

(* The specifications registered: two contents of one environment *)
RegisteredSpecifications == [name : EnvNames, sha256 : SpecHashes \cup {"h2"}]

(* The builds of the environment with the content of the specification     *)
(* that are not canceled                                                    *)
UnchangedBuilds(specification, namespace_name) ==
    {b \in DOMAIN builds :
        /\ builds[b].env = <<namespace_name, specification.name>>
        /\ builds[b].sha256 = specification.sha256
        /\ builds[b].status # CANCELED}

(* What register_environment returned: the id of a build, and whether the  *)
(* build was created by the call                                            *)
Registered(build_id, created) ==
    listing' = [caller |-> None, kind |-> "register", rows |-> build_id,
                count |-> IF created THEN 1 ELSE 0]

(* register_environment as it would be if the builds of the same content   *)
(* were not looked at                                                       *)
register_environment_always_builds(specification, namespace_name, force) ==
    /\ register_environment(specification, namespace_name)
    /\ Registered(next_build_id, TRUE)
    /\ UNCHANGED <<cleanups, storage, cancel, kvstore, response, gate,
                   solveVars, tokenVars, roleVars, registryVars>>

(* register_environment(db, specification, namespace, force): without      *)
(* force, the id of an unchanged build that is not canceled is returned    *)
(* and nothing is created; otherwise a new build is created                 *)
register_environment_force(specification, namespace_name, force) ==
    IF ~force /\ UnchangedBuilds(specification, namespace_name) # {}
    THEN /\ \E b \in UnchangedBuilds(specification, namespace_name) :
               Registered(b, FALSE)
         /\ UNCHANGED <<buildVars, cancel, kvstore, offSettings>>
    ELSE /\ register_environment(specification, namespace_name)
         /\ Registered(next_build_id, TRUE)
         /\ UNCHANGED <<cleanups, storage, cancel, kvstore, response, gate,
                        solveVars, tokenVars, roleVars, registryVars>>

RegisterNext ==
    \/ \E b \in BuildIds : task_build_start(b)
    \/ \E b \in BuildIds, ok \in BOOLEAN : task_build_finish(b, ok)
    \/ \E b \in BuildIds : task_build_artifacts(b)
    \/ \E cl \in cleanups : task_cleanup_builds(cl)
    \/ \E c \in Callers, b \in BuildIds : api_put_build_cancel_begin(c, b)
    \/ \E alive \in BOOLEAN : api_put_build_cancel_ping(alive)
    \/ api_put_build_cancel_revoke
    \/ api_put_build_cancel_cleanup
    \/ \E sp \in RegisteredSpecifications, ns \in NamespaceNames, force \in BOOLEAN :
          register_environment_force(sp, ns, force)

RegisterSpec == Init /\ [][RegisterNext]_vars

----------------------------------------------------------------------------
(* The broker is unreachable when create_build dispatches the tasks: the   *)
(* Build row is committed, the dispatch raises and the request fails        *)

(* create_build as it would be if the tasks dispatched before the failure  *)
(* stayed in the queue                                                      *)
create_build_partly_dispatched(env, sha) ==
    /\ next_build_id <= MaxBuilds
    /\ builds' = Put(builds, next_build_id, NewBuild(env, sha))
    /\ next_build_id' = next_build_id + 1
    /\ tasks' = tasks \cup {TaskName(next_build_id, ph) : ph \in ArtifactPhases}

(* create_build up to the dispatch that fails: the row is there in state   *)
(* QUEUED and no task of the build is                                       *)
create_build_undispatched(env, sha) ==
    /\ next_build_id <= MaxBuilds
    /\ builds' = Put(builds, next_build_id, NewBuild(env, sha))
    /\ next_build_id' = next_build_id + 1
    /\ tasks' = tasks

(* PUT /build/{id}/ when the dispatch fails: the exception is no           *)
(* CondaStoreError and leaves the handler as a server error                 *)
api_put_build_dispatch_fails(c, build_id) ==
    /\ Exists(build_id)
    /\ Authorized(c, BuildArn(build_id), {"ENVIRONMENT_UPDATE"})
    /\ create_build_undispatched(builds[build_id].env, builds[build_id].sha256)
    /\ Respond("500", "authorize_request")
    /\ UNCHANGED <<namespaces, environments, current_build, cleanups, storage,
                   offBuild, cancel>>

(* POST /specification/ when the dispatch fails *)
api_post_specification_dispatch_fails(c, namespace, specification) ==
    LET namespace_name == PostNamespace(c, namespace)
        env == <<namespace_name, specification.name>>
    IN
    /\ Authorized(c, env, PostPermissions(c, namespace))
    /\ namespaces' = namespaces \cup {namespace_name}
    /\ environments' = environments \cup {env}
    /\ current_build' = IF env \in DOMAIN current_build
                        THEN current_build ELSE Put(current_build, env, 0)
    /\ create_build_undispatched(env, specification.sha256)
    /\ Respond("500", "authorize_request")
    /\ UNCHANGED <<cleanups, storage, offBuild, cancel>>

DispatchNext ==
    \/ Next
    \/ \E c \in Callers, b \in BuildIds : api_put_build_dispatch_fails(c, b)
    \/ \E c \in Callers, ns \in NamespaceNames \cup {None}, sp \in Specifications :
          api_post_specification_dispatch_fails(c, ns, sp)

DispatchSpec == Init /\ [][DispatchNext]_vars

----------------------------------------------------------------------------
(* The GET endpoints of a build: /build/{build_id}/ and its artifacts *)

(* A request that reads only *)
Answers(status, g) ==
    /\ Respond(status, g)
    /\ UNCHANGED <<buildVars, cancel, offBuild>>

(* The handlers that test the build for None: 404, then authorize_request  *)
(* on ENVIRONMENT_READ, then the answer                                     *)
ReadsBuild(c, build_id, statuses) ==
    IF ~Exists(build_id)
    THEN Answers("404", "none")
    ELSE IF ~Authorized(c, BuildArn(build_id), {"ENVIRONMENT_READ"})
    THEN Answers("403", "authorize_request")
    ELSE \E status \in statuses : Answers(status, "authorize_request")

(* The handlers that do not: build.environment of None raises              *)
(* AttributeError while the arguments of authorize_request are evaluated,  *)
(* and the request ends as a server error                                   *)
ReadsBuildUnchecked(c, build_id, statuses) ==
    IF ~Exists(build_id)
    THEN Answers("500", "none")
    ELSE IF ~Authorized(c, BuildArn(build_id), {"ENVIRONMENT_READ"})
    THEN Answers("403", "authorize_request")
    ELSE \E status \in statuses : Answers(status, "authorize_request")

api_get_build(c, build_id) == ReadsBuild(c, build_id, {"200"})

api_get_build_packages(c, build_id) == ReadsBuild(c, build_id, {"200"})

(* RedirectResponse to the url of the key *)
api_get_build_logs(c, build_id) == ReadsBuild(c, build_id, {"307"})

api_get_build_yaml(c, build_id) == ReadsBuild(c, build_id, {"307"})

(* The lockfile of a legacy build is returned, any other is redirected to *)
api_get_build_lockfile(c, build_id) == ReadsBuild(c, build_id, {"200", "307"})

api_get_build_archive(c, build_id) == ReadsBuildUnchecked(c, build_id, {"307"})

(* 400 when the build has no docker manifest *)
api_get_build_docker_image_url(c, build_id) ==
    ReadsBuildUnchecked(c, build_id, {"200", "400"})

(* 400 when the build has no installer *)
api_get_build_installer(c, build_id) ==
    ReadsBuildUnchecked(c, build_id,
        IF TaskName(build_id, "constructor-installer") \in storage
        THEN {"307"} ELSE {"400"})

(* The build ids of the requests: one more than the table can hold *)
RequestBuildIds == 1..(MaxBuilds + 1)

BuildGetNext ==
    \/ Next
    \/ \E c \in Callers, b \in RequestBuildIds : api_get_build(c, b)
    \/ \E c \in Callers, b \in RequestBuildIds : api_get_build_packages(c, b)
    \/ \E c \in Callers, b \in RequestBuildIds : api_get_build_logs(c, b)
    \/ \E c \in Callers, b \in RequestBuildIds : api_get_build_yaml(c, b)
    \/ \E c \in Callers, b \in RequestBuildIds : api_get_build_lockfile(c, b)
    \/ \E c \in Callers, b \in RequestBuildIds : api_get_build_archive(c, b)
    \/ \E c \in Callers, b \in RequestBuildIds : api_get_build_docker_image_url(c, b)
    \/ \E c \in Callers, b \in RequestBuildIds : api_get_build_installer(c, b)

BuildGetSpec == Init /\ [][BuildGetNext]_vars

----------------------------------------------------------------------------
(* The solve requests with a server that keeps serving: a request whose    *)
(* wait() can return does return.  Nothing is assumed of the worker, which *)
(* may never process a task.                                                *)
SolveFairSpec ==
    /\ SolveSpec
    /\ \A r \in Slots : WF_vars(api_get_specification_return(r))

(***************************************************************************)
(* Deletion of a build, interrupted                                        *)
(***************************************************************************)

(* The keys the deletion of build b walks, one for each artifact phase,    *)
(* whether the key is in the store or not                                   *)
ArtifactKeys(b) == {TaskName(b, ph) : ph \in ArtifactPhases}

(* delete_build as it would be if the row were removed before the keys     *)
delete_build_row_first(build_id, removed) == builds' = Drop(builds, build_id) /\ storage' = storage \ removed

(* delete_build stopped part-way: the keys of removed are deleted from the *)
(* store, a key that is not in the store being no error; the Build row,    *)
(* removed last, is still there                                             *)
delete_build_interrupted(build_id, removed) ==
    /\ builds' = builds
    /\ storage' = storage \ removed

api_delete_build_interrupted(c, build_id, removed) ==
    /\ Exists(build_id)
    /\ Authorized(c, BuildArn(build_id), {"BUILD_DELETE"})
    /\ delete_build_interrupted(build_id, removed)
    /\ Respond("500", "authorize_request")
    /\ UNCHANGED <<namespaces, environments, current_build, next_build_id,
                   tasks, cleanups, offBuild, cancel>>

DeleteNext ==
    \/ \E c \in Callers, ns \in NamespaceNames, sp \in Specifications :
          api_post_specification(c, ns, sp)
    \/ \E b \in BuildIds : task_build_start(b)
    \/ \E b \in BuildIds, ok \in BOOLEAN : task_build_finish(b, ok)
    \/ \E b \in BuildIds : task_build_artifacts(b)
    \/ \E b \in BuildIds : task_build_orphan(b)
    \/ \E c \in Callers, b \in BuildIds : api_delete_build(c, b)
    \/ \E c \in Callers, b \in BuildIds :
          \E removed \in SUBSET ArtifactKeys(b) :
             api_delete_build_interrupted(c, b, removed)

DeleteSpec == Init /\ [][DeleteNext]_vars

----------------------------------------------------------------------------
(* api_list_environments_v1: GET /environment/ with the jwt parameter *)

(* filter_environments(query, role_bindings): the environments of the      *)
(* query selected by the role bindings                                      *)
filter_environments(query, role_bindings) == query \cap SelectedBy(role_bindings)

(* The role bindings of the caller and of the token: one pattern each *)
EntityRoleBindings == {[p \in {q} |-> {Viewer}] : q \in BindingPatterns}

(* The jwt parameter: <<>> when it is not given, else the role bindings of *)
(* the decrypted token                                                      *)
RequestJwts == {<<>>} \cup {<<rb>> : rb \in EntityRoleBindings}

(* The handler as it would be if the bindings of the supplied token took   *)
(* the place of the bindings of the caller                                  *)
environments_of_token(entity_role_bindings, jwt) == IF jwt = <<>> THEN SelectedBy(entity_role_bindings) ELSE SelectedBy(jwt[1])

(* The environments the handler returns: api.list_environments with the    *)
(* role bindings of the token, None without a jwt, then the filter of the  *)
(* caller who made the request                                              *)
environments_v1(entity_role_bindings, jwt) ==
    LET role_bindings == jwt
        orm_environments == IF role_bindings = <<>>
                            THEN list_environments(FALSE)
                            ELSE filter_environments(list_environments(FALSE),
                                                     role_bindings[1])
    IN  filter_environments(orm_environments, entity_role_bindings)

api_list_environments_v1(entity_role_bindings, jwt) ==
    /\ listing' = [caller |-> None, kind |-> "environment_v1",
                   rows |-> environments_v1(entity_role_bindings, jwt),
                   count |-> Cardinality(environments_v1(entity_role_bindings, jwt)),
                   role_bindings |-> entity_role_bindings,
                   jwt |-> jwt]
    /\ UNCHANGED <<buildVars, cancel, kvstore, response, gate, solveVars, tokenVars,
                   roleVars, registryVars>>

EnvironmentListNext ==
    \E entity_role_bindings \in EntityRoleBindings, jwt \in RequestJwts :
        api_list_environments_v1(entity_role_bindings, jwt)

EnvironmentListSpec == PopulatedInit /\ [][EnvironmentListNext]_vars

----------------------------------------------------------------------------
(* POST /specification/ step by step: the lookup of the namespace, then    *)
(* the authorization and the registration                                   *)

(* The handler up to the parsing of the specification: the permissions are *)
(* computed from the lookup of the namespace                                *)
api_post_specification_lookup(r, c, namespace, specification) ==
    /\ create_req[r] = NoCreate
    /\ IF specification = InvalidYaml
       THEN /\ Respond("400", "none")
            /\ UNCHANGED create_req
       ELSE /\ create_req' = [create_req EXCEPT ![r] =
                                 [pc |-> "register",
                                  name |-> PostNamespace(c, namespace),
                                  caller |-> c,
                                  specification |-> specification,
                                  permissions |-> PostPermissions(c, namespace)]]
            /\ UNCHANGED <<response, gate>>
    /\ UNCHANGED <<buildVars, cancel, kvstore, solveVars, tokenVars, roleVars,
                   namespace_rows, next_namespace_id, environment_rows,
                   next_environment_id, listing>>

(* The rest of the handler: authorize_request with the permissions         *)
(* computed at the lookup, then register_environment, which creates the    *)
(* namespace when it finds none                                             *)
api_post_specification_register(r) ==
    LET req == create_req[r] IN
    /\ req.pc = "register"
    /\ create_req' = [create_req EXCEPT ![r] = NoCreate]
    /\ IF ~Authorized(req.caller, <<req.name, req.specification.name>>, req.permissions)
       THEN /\ Respond("403", "authorize_request")
            /\ UNCHANGED <<buildVars, namespace_rows, next_namespace_id>>
       ELSE \/ /\ register_environment(req.specification, req.name)
               /\ IF req.name \in namespaces
                  THEN UNCHANGED <<namespace_rows, next_namespace_id>>
                  ELSE /\ next_namespace_id <= MaxNamespaceRows
                       /\ namespace_rows' = namespace_rows \cup
                                               {Namespace(next_namespace_id, req.name)}
                       /\ next_namespace_id' = next_namespace_id + 1
               /\ Respond("200", "authorize_request")
               /\ UNCHANGED <<cleanups, storage>>
            \/ /\ Respond("400", "authorize_request")
               /\ UNCHANGED <<buildVars, namespace_rows, next_namespace_id>>
    /\ UNCHANGED <<cancel, kvstore, solveVars, tokenVars, roleVars,
                   environment_rows, next_environment_id, listing>>

(* Submissions in flight while namespaces are deleted *)
SubmitNext ==
    \/ \E r \in Slots, c \in Callers, ns \in RegistryNames \cup {None},
          sp \in Specifications \cup {InvalidYaml} :
          api_post_specification_lookup(r, c, ns, sp)
    \/ \E r \in Slots : api_post_specification_register(r)
    \/ \E id \in 1..MaxNamespaceRows : delete_namespace(id)

SubmitSpec == RegistryInit /\ [][SubmitNext]_vars

----------------------------------------------------------------------------
(* GET /environment/{namespace}/{environment_name}/lockfile/ and           *)
(* GET /build/{build_id}/lockfile/                                          *)

(* The LOCKFILE artifacts: <<build id, key>>, the key "" for the artifact  *)
(* of a build made before conda-lock was used                               *)
LockfileArtifacts == {a \in storage : a[2] \in {"", "conda-lock"}}

(* api.list_build_artifacts(db, build_id=build_id, included_artifact_types *)
(* =[LOCKFILE]); build_id 0 stands for None, and with None the filter on   *)
(* the build is either left out or matches no row                           *)
list_build_artifacts(build_id, unfiltered) ==
    IF build_id # 0 THEN {a \in LockfileArtifacts : a[1] = build_id}
    ELSE IF unfiltered THEN LockfileArtifacts
    ELSE {}

(* What the handler answers: the status, whether the legacy lockfile is    *)
(* built, and the build whose lockfile is returned (0: no build)           *)
LockfileAnswer(status, legacy, served) ==
    [status |-> status, legacy |-> legacy, served |-> served]

get_build_lockfile(c, namespace, environment_name, build_id, unfiltered) ==
    LET env == <<namespace, environment_name>>
        build == IF build_id = 0
                 THEN IF env \in environments THEN current_build[env] ELSE 0
                 ELSE IF Exists(build_id) THEN build_id ELSE 0
    IN
    IF build_id = 0 /\ env \notin environments
    THEN LockfileAnswer("404", FALSE, 0)
    ELSE IF build = 0
    THEN LockfileAnswer("404", FALSE, 0)
    ELSE IF ~Authorized(c, BuildArn(build), {"ENVIRONMENT_READ"})
    THEN LockfileAnswer("403", FALSE, 0)
    ELSE IF \E ba \in list_build_artifacts(build_id, unfiltered) : ba[2] = ""
    THEN LockfileAnswer("200", TRUE, build_id)
    ELSE LockfileAnswer("307", FALSE, build)

api_get_build_lockfile_route(c, namespace, environment_name, build_id) ==
    \E unfiltered \in BOOLEAN :
       LET answer == get_build_lockfile(c, namespace, environment_name,
                                        build_id, unfiltered)
       IN
       /\ Respond(answer.status,
                  IF answer.status = "404" THEN "none" ELSE "authorize_request")
       /\ listing' = [caller |-> c, kind |-> "lockfile", rows |-> {}, count |-> 0,
                      legacy |-> answer.legacy, served |-> answer.served]
       /\ UNCHANGED <<buildVars, cancel, kvstore, solveVars, tokenVars, roleVars,
                      registryVars>>

(* One environment with two completed builds, either of them the current   *)
(* one, each with the artifacts of a build of either kind or none          *)
LockfileInit ==
    /\ namespaces = {"ns1"}
    /\ environments = {<<"ns1", "env1">>}
    /\ \E b \in BuildIds : current_build = [e \in environments |-> b]
    /\ builds = [b \in BuildIds |->
                    [NewBuild(<<"ns1", "env1">>, "h1") EXCEPT !.status = COMPLETED]]
    /\ next_build_id = MaxBuilds + 1
    /\ tasks = {}
    /\ cleanups = {}
    /\ storage \in SUBSET (BuildIds \X {"", "conda-lock"})
    /\ cancel = Idle
    /\ response = "none"
    /\ gate = "none"
    /\ solves = [h \in {} |-> "pending"]
    /\ solve_req = [r \in Slots |-> NoSolveRequest]
    /\ tokens = {}
    /\ now = 0
    /\ role_mappings = {}
    /\ next_role_id = 1
    /\ sessions = [r \in Slots |-> NoSession]
    /\ RegistryEmpty

LockfileNext ==
    \/ \E c \in Callers, ns \in RegistryNames :
          api_get_build_lockfile_route(c, ns, "env1", 0)
    \/ \E c \in Callers, b \in RequestBuildIds :
          api_get_build_lockfile_route(c, None, None, b)

LockfileSpec == LockfileInit /\ [][LockfileNext]_vars

----------------------------------------------------------------------------
(* get_sorts and filter_distinct_on, as api_list_packages calls them *)

(* allowed_sort_bys and allowed_distinct_ons of api_list_packages: the     *)
(* column of each name                                                      *)
AllowedSortBys ==
    [s \in {"channel", "name", "version"} |->
        CASE s = "channel" -> "CondaChannel.name"
          [] s = "name"    -> "CondaPackage.name"
          [] s = "version" -> "CondaPackage.version"]

(* default_sort_by of api_list_packages *)
DefaultSortBy == <<"channel", "name", "version", "build">>

(* [allowed[s] for s in names if s in allowed] *)
AllowedColumns(names, allowed) ==
    LET known == SelectSeq(names, LAMBDA s : s \in DOMAIN allowed)
    IN  [i \in 1..Len(known) |-> allowed[known[i]]]

(* The columns filter_distinct_on returns; default_distinct_on is []       *)
filter_distinct_on(distinct_on, allowed_distinct_ons) ==
    AllowedColumns(distinct_on, allowed_distinct_ons)

(* sort_by[:n] *)
Slice(s, n) == SubSeq(s, 1, IF n < Len(s) THEN n ELSE Len(s))

(* get_sorts as it would be if the required columns were not put first     *)
get_sorts_without_required(order, sort_by, allowed_sort_bys, required_sort_bys, default_sort_by, default_order) == [i \in 1..Len(AllowedColumns(IF sort_by # <<>> THEN sort_by ELSE default_sort_by, allowed_sort_bys)) |-> <<AllowedColumns(IF sort_by # <<>> THEN sort_by ELSE default_sort_by, allowed_sort_bys)[i], IF order \in {"asc", "desc"} THEN order ELSE default_order>>]

(* get_sorts: the sort list, each entry <<column, direction>> *)
get_sorts(order, sort_by, allowed_sort_bys, required_sort_bys, default_sort_by, default_order) ==
    LET named == IF sort_by # <<>> THEN sort_by ELSE default_sort_by
        columns == AllowedColumns(named, allowed_sort_bys)
        sorted == IF required_sort_bys # Slice(columns, Len(required_sort_bys))
                  THEN required_sort_bys \o columns
                  ELSE columns
        direction == IF order \notin {"asc", "desc"} THEN default_order ELSE order
    IN  [i \in 1..Len(sorted) |-> <<sorted[i], direction>>]

(* The names and the orders of the requests: "build" and "bogus" are in no *)
(* table, "up" is no order                                                  *)
RequestOrders == {"asc", "desc", "up"}
RequestSortBys ==
    {<<>>} \cup {<<s>> : s \in {"channel", "name", "build"}}
           \cup {<<s, t>> : s \in {"channel", "name", "build"},
                            t \in {"channel", "name", "build"}}
RequestDistinctOns ==
    {<<>>, <<"channel">>, <<"name">>, <<"channel", "name">>, <<"bogus">>}

(* GET /package/: the sort list the listing is ordered by *)
api_list_packages_sorts(order, sort_by, distinct_on) ==
    LET required_sort_bys == filter_distinct_on(distinct_on, AllowedSortBys) IN
    /\ listing' = [caller |-> None, kind |-> "sorts", rows |-> {}, count |-> 0,
                   order |-> order, sort_by |-> sort_by,
                   required_sort_bys |-> required_sort_bys,
                   sorts |-> get_sorts(order, sort_by, AllowedSortBys,
                                       required_sort_bys, DefaultSortBy, "asc")]
    /\ UNCHANGED <<buildVars, cancel, kvstore, response, gate, solveVars, tokenVars,
                   roleVars, registryVars>>

SortNext ==
    \E order \in RequestOrders, sort_by \in RequestSortBys,
       distinct_on \in RequestDistinctOns :
       api_list_packages_sorts(order, sort_by, distinct_on)

SortSpec == Init /\ [][SortNext]_vars

----------------------------------------------------------------------------
(* Properties                       *)

StatusOf(b) == builds[b].status

AllowedTransition(s, t) ==
    \/ s = QUEUED /\ t = BUILDING
    \/ s = BUILDING /\ t \in {COMPLETED, FAILED}
    \/ s \notin Terminal /\ t = CANCELED

(* The builds that exist before and after a step *)
Surviving == DOMAIN builds \cap DOMAIN builds'

(* C1: the status of a build moves only QUEUED -> BUILDING -> COMPLETED or *)
(* FAILED, or from a non-terminal state to CANCELED; a build in a terminal *)
(* state keeps its status, also when a cleanup task scheduled by an        *)
(* accepted cancel request runs on it.                                      *)
C1_StatusTransitions ==
    [][\A b \in Surviving :
          \/ builds'[b].status = builds[b].status
          \/ AllowedTransition(builds[b].status, builds'[b].status)]_vars

(* A cancel request was accepted for a finished build: its cleanup task is *)
(* scheduled on a build in a terminal state                                 *)
C1_Witness ==
    \E cl \in cleanups :
        /\ Exists(cl.build_id)
        /\ StatusOf(cl.build_id) \in {COMPLETED, FAILED}
        /\ response = "200"

(* The refusal of an unauthorized request: 403 and nothing else changes *)
Refused ==
    /\ response' = "403"
    /\ UNCHANGED <<buildVars, cancel, offBuild>>

(* C2: a request whose caller lacks the required permissions on the target *)
(* ARN fails with an authorization error and changes nothing: no row, no   *)
(* task, no cleanup, no storage key. In every state, no handling of such a *)
(* request ends otherwise.                                                  *)
C2_UnauthorizedChangesNothing ==
    /\ \A c \in Callers, b \in DOMAIN builds :
          /\ ~Authorized(c, BuildArn(b), {"BUILD_DELETE"})
                => ~ENABLED (api_delete_build(c, b) /\ ~Refused)
          /\ ~Authorized(c, BuildArn(b), {"ENVIRONMENT_UPDATE"})
                => ~ENABLED (api_put_build(c, b) /\ ~Refused)
          /\ ~Authorized(c, BuildArn(b), {"BUILD_CANCEL"})
                => ~ENABLED (api_put_build_cancel_begin(c, b) /\ ~Refused)
    /\ \A c \in Callers, ns \in NamespaceNames \cup {None}, sp \in Specifications :
          ~Authorized(c, <<PostNamespace(c, ns), sp.name>>, PostPermissions(c, ns))
             => ~ENABLED (api_post_specification(c, ns, sp) /\ ~Refused)

(* A request was refused while builds, tasks and artifacts existed *)
C2_Witness ==
    /\ response = "403"
    /\ builds # <<>>
    /\ tasks # {}
    /\ storage # {}

(* C5: a cancel request that ends at the broker ping fails with 409 and    *)
(* revokes no task, schedules no cleanup and leaves every build's status    *)
(* and is_canceled flag as they were.                                       *)
C5_CancelUnsupported ==
    [][(cancel.pc = "ping" /\ cancel'.pc = "idle") =>
          /\ response' = "409"
          /\ UNCHANGED <<tasks, cleanups, builds, storage>>]_vars

(* A cancel request failed with 409 while tasks of a build were dispatched *)
C5_Witness ==
    /\ response = "409"
    /\ \E b \in DOMAIN builds :
          /\ tasks \cap RevokedTasks(b) # {}
          /\ ~builds[b].is_canceled

(* The cleanup entry api_put_build_cancel schedules for a build *)
CleanupOf(b) == [build_id |-> b, countdown |-> CleanupCountdown]

(* C6: in an accepted cancel request the ping comes first, then the revoke *)
(* of the build's tasks, then the scheduling of a cleanup task for that    *)
(* build id with a positive delay of 5 seconds; a build becomes CANCELED   *)
(* only in a step outside the request, one that consumes a scheduled       *)
(* cleanup task of that build.                                              *)
C6_CancelOrder ==
    [][/\ (cancel'.pc # cancel.pc) =>
             \/ /\ cancel.pc = "idle" /\ cancel'.pc = "ping"
                /\ UNCHANGED <<tasks, cleanups, builds>>
             \/ /\ cancel.pc = "ping" /\ cancel'.pc \in {"revoke", "idle"}
                /\ UNCHANGED <<tasks, cleanups, builds>>
             \/ /\ cancel.pc = "revoke" /\ cancel'.pc = "cleanup"
                /\ cancel'.build_id = cancel.build_id
                /\ tasks' = tasks \ RevokedTasks(cancel.build_id)
                /\ UNCHANGED <<cleanups, builds>>
             \/ /\ cancel.pc = "cleanup" /\ cancel'.pc = "idle"
                /\ cleanups' = cleanups \cup {CleanupOf(cancel.build_id)}
                /\ response' = "200"
                /\ UNCHANGED <<tasks, builds>>
       /\ \A cl \in cleanups' \ cleanups :
             /\ cancel.pc = "cleanup"
             /\ cl.build_id = cancel.build_id
             /\ cl.countdown = 5
             /\ cl.countdown > 0
       /\ \A b \in Surviving :
             (builds'[b].status = CANCELED /\ builds[b].status # CANCELED) =>
                /\ cancel' = cancel
                /\ \E cl \in cleanups \ cleanups' : cl.build_id = b]_vars

(* An accepted cancel request has returned and its cleanup task has run:   *)
(* the build is CANCELED and no cleanup is left for it                      *)
C6_Witness ==
    \E b \in DOMAIN builds :
        /\ StatusOf(b) = CANCELED
        /\ builds[b].is_canceled
        /\ \A cl \in cleanups : cl.build_id # b
        /\ tasks \cap RevokedTasks(b) = {}

(* A cancel request was accepted for build b while it was QUEUED or        *)
(* BUILDING and its cleanup task has not run yet                            *)
CancelAccepted(b) ==
    /\ Exists(b)
    /\ StatusOf(b) \in {QUEUED, BUILDING}
    /\ CleanupOf(b) \in cleanups

Canceled(b) == Exists(b) /\ StatusOf(b) = CANCELED /\ builds[b].is_canceled

(* After the acceptance the build stays as it is or becomes CANCELED *)
NeverCompletes ==
    [][\A b \in Surviving :
          CancelAccepted(b) => builds'[b].status \in {builds[b].status, CANCELED}]_vars

C8_RevokeExact ==
    [][(cancel.pc = "revoke" /\ cancel'.pc = "cleanup") =>
          tasks' = tasks \ BuildTasks(cancel.build_id)]_vars

(* C9: the status of an existing build changes only in a step of the task  *)
(* worker, never in a step of a request handler.                            *)
C9_OnlyWorkerWritesStatus ==
    [][(\E b \in Surviving : builds'[b].status # builds[b].status) => Worker]_vars

(* A rebuild was requested for a build the worker had completed, and the   *)
(* new build was created QUEUED beside it                                   *)
C9_Witness ==
    /\ response = "200"
    /\ \E b1, b2 \in DOMAIN builds :
          /\ b1 < b2
          /\ builds[b1].env = builds[b2].env
          /\ StatusOf(b1) = COMPLETED
          /\ StatusOf(b2) = QUEUED
          /\ cancel.pc = "idle"
          /\ cleanups = {}

(* C3: every operation on solve or catalog state runs after the caller's   *)
(* role bindings were evaluated against a target ARN: a solve is           *)
(* registered only for a request that passed an authorization check, and   *)
(* every response was produced after one.                                   *)
C3_EveryOperationGated ==
    /\ \A r \in Slots : solve_req[r].pc = "wait" => solve_req[r].gate # "none"
    /\ response \in {"200", "500"} => gate # "none"

(* The ARNs on which the permissions of two entities are compared: every   *)
(* name a binding pattern mentions and one name no pattern mentions        *)
Arns == {DefaultNamespace, "ns1", "other"} \X {"", "env1", "other"}

(* The permissions an entity holds on an ARN *)
Holds(entity, arn) == BindingPermissions(get_entity_bindings(entity), arn)

Exceeds(new_entity, entity) ==
    \/ \E arn \in Arns : ~(Holds(new_entity, arn) \subseteq Holds(entity, arn))
    \/ new_entity.exp > entity.exp

(* C4: every issued token, also one minted from a minted token, holds no   *)
(* permission on any ARN that its issuing entity did not hold and expires  *)
(* no later than its issuing entity; a request for a token that would      *)
(* exceed either is answered 400 and issues no token.                       *)
C4_TokenWithinIssuer ==
    /\ \A t \in tokens : ~Exceeds(t.token, t.issuer)
    /\ \A e \in TokenEntities, pn \in {None, "ns1"},
          ex \in RequestedExpirations, rb \in RequestedBindings :
          Exceeds(NewEntity(EntityOrAnonymous(e), pn, ex, rb), EntityOrAnonymous(e))
             => ~ENABLED (/\ api_post_token(e, pn, ex, rb)
                          /\ ~(response' = "400" /\ tokens' = tokens))

(* A token was minted from a token that was itself minted, with narrower   *)
(* bindings than its issuer's                                               *)
C4_Witness ==
    \E t, u \in tokens :
        /\ u.issuer = t.token
        /\ u.token.role_bindings # t.token.role_bindings
        /\ u.token.role_bindings # NoBindings
        /\ u.token.exp < t.token.exp

(* Two creation attempts for the pair of session r are in flight: r is     *)
(* about to commit and lose against a row committed meanwhile              *)
Loses(r) ==
    /\ sessions[r].pc = "commit"
    /\ Mapped(sessions[r].namespace, sessions[r].other) # {}

(* C10: at most one role mapping exists for every pair (namespace, other); *)
(* of two concurrent creation attempts for one pair exactly one row        *)
(* survives and the other attempt fails with a DuplicateError.             *)
C10_UniqueMappingDuplicateError ==
    /\ [](\A ns \in RequestNamespaces, other \in RoleNamespaces :
             Cardinality(Mapped(ns, other)) <= 1)
    /\ [][\A r \in Slots :
             (Loses(r) /\ sessions'[r].pc = "idle") =>
                /\ response' = DuplicateError
                /\ role_mappings' = role_mappings]_vars

(* Two create requests for one name are in flight: r is about to commit    *)
(* and lose against a row committed meanwhile                               *)
CreateLoses(r) ==
    /\ create_req[r].pc = "commit"
    /\ get_namespace(create_req[r].name, FALSE) # {}

(* C11: of two concurrent create-namespace requests for one name, under    *)
(* every interleaving of their lookup, insert and commit, at most one      *)
(* namespace that is not deleted holds the name afterwards, and the losing *)
(* request is answered with the duplicate error 409 (already exists), not  *)
(* with a raw database error, and adds no row.                              *)
C11_ConcurrentCreateDuplicateError ==
    /\ [](\A name \in RegistryNames :
             Cardinality(get_namespace(name, FALSE)) <= 1)
    /\ [][\A r \in Slots :
             (CreateLoses(r) /\ create_req'[r].pc = "idle") =>
                /\ response' = "409"
                /\ namespace_rows' = namespace_rows]_vars

(* The name is held by a row that is not deleted / only by deleted rows *)
HeldLive(name) == get_namespace(name, FALSE) # {}
HeldOnlyDeleted(name) ==
    get_namespace(name, FALSE) = {} /\ get_namespace(name, TRUE) # {}

(* C12: a create-namespace request of a caller allowed to create, for a    *)
(* name held by a namespace that is not deleted, is answered with the      *)
(* duplicate error 409 and changes nothing; for a name held only by a      *)
(* soft-deleted namespace it is not answered with the duplicate error.     *)
C12_DuplicateNameBlocksCreation ==
    \A r \in Slots, c \in Callers, name \in RegistryNames :
        (create_req[r].pc = "idle" /\ Authorized(c, <<name, "">>, {"NAMESPACE_CREATE"})) =>
            /\ HeldLive(name) =>
                  ~ENABLED (/\ api_create_namespace(r, c, name)
                            /\ ~(response' = "409" /\ UNCHANGED registryVars))
            /\ HeldOnlyDeleted(name) =>
                  ~ENABLED (api_create_namespace(r, c, name) /\ response' = "409")

(* The rows of a table that are listed under a name *)
ListedNamespaces(rows, name) == {n \in rows : n.name = name /\ ~n.deleted}
ListedEnvironments(rows, namespace_id, name) ==
    {e \in rows : e.namespace_id = namespace_id /\ e.name = name /\ ~e.deleted}

NamespacePermissions(c, namespace) ==
    BindingPermissions(get_entity_bindings(Entity(c)), <<namespace, "">>)

(* The request was refused and no table changed *)
RegistryRefused ==
    /\ response' = "403"
    /\ UNCHANGED <<registryVars, role_mappings, namespaces>>

(* C14: a request to update a namespace, to delete its role mappings, to   *)
(* create or to delete it, whose caller does not hold every required       *)
(* permission on the namespace, also when the caller holds some of them,   *)
(* is answered 403 and changes nothing.                                     *)
C14_AuthorizeRequiresEveryPermission ==
    \A c \in Callers, ns \in RegistryNames :
        /\ ~({"NAMESPACE_UPDATE", "NAMESPACE_ROLE_MAPPING_CREATE",
              "NAMESPACE_ROLE_MAPPING_DELETE"} \subseteq NamespacePermissions(c, ns))
              => ~ENABLED (api_update_namespace(c, ns, "m") /\ ~RegistryRefused)
        /\ ~({"NAMESPACE_READ", "NAMESPACE_ROLE_MAPPING_DELETE"}
                 \subseteq NamespacePermissions(c, ns))
              => ~ENABLED (api_delete_namespace_roles(c, ns) /\ ~RegistryRefused)
        /\ ~({"NAMESPACE_DELETE"} \subseteq NamespacePermissions(c, ns))
              => ~ENABLED (api_delete_namespace(c, ns) /\ ~RegistryRefused)
        /\ ~({"NAMESPACE_CREATE"} \subseteq NamespacePermissions(c, ns))
              => \A r \in Slots :
                    ~ENABLED (api_create_namespace(r, c, ns) /\ ~RegistryRefused)

(* A request was refused while a caller who holds NAMESPACE_READ without   *)
(* NAMESPACE_ROLE_MAPPING_DELETE can ask for the deletion of the role      *)
(* mappings of ns1, which exist, and is refused                             *)
C14_Witness ==
    /\ response = "403"
    /\ gate = "authorize_request"
    /\ \E m \in role_mappings : m.namespace = "ns1"
    /\ \E c \in Callers :
          /\ "NAMESPACE_READ" \in NamespacePermissions(c, "ns1")
          /\ "NAMESPACE_ROLE_MAPPING_DELETE" \notin NamespacePermissions(c, "ns1")
          /\ ENABLED (api_delete_namespace_roles(c, "ns1") /\ response' = "403")

(* The permissions the roles bound under pattern p grant *)
PatternPermissions(bindings, p) ==
    UNION {RolePermissions(role) : role \in bindings[p]}

(* Some pattern of the requested bindings grants what the entity does not  *)
(* hold for that pattern                                                    *)
BeyondSomePattern(entity, bindings) ==
    \E p \in DOMAIN bindings :
        ~(PatternPermissions(bindings, p) \subseteq Holds(entity, p))

(* C15: the bindings of every issued token are, pattern by pattern, within *)
(* what its issuer holds for that pattern, and a request binding a pattern *)
(* under which it grants more than the issuer holds for that pattern is    *)
(* answered 400 and issues no token, also when the union of the issuer's   *)
(* permissions covers the union of the requested ones.                      *)
C15_SubsetCheckedPerPattern ==
    /\ \A t \in tokens : ~BeyondSomePattern(t.issuer, t.token.role_bindings)
    /\ \A e \in TokenEntities, pn \in {None, "ns1"},
          ex \in RequestedExpirations, rb \in RequestedBindings :
          BeyondSomePattern(EntityOrAnonymous(e), rb)
             => ~ENABLED (/\ api_post_token(e, pn, ex, rb)
                          /\ ~(response' = "400" /\ tokens' = tokens))

(* A request was refused, and a request for a broader pattern whose        *)
(* permissions are all among the flattened permissions of its issuer is    *)
(* refused                                                                  *)
C15_Witness ==
    /\ response = "400"
    /\ gate = "is_subset_entity_permissions"
    /\ \E e \in TokenEntities, rb \in RequestedBindings :
          /\ rb # NoBindings
          /\ FlattenedPermissions(rb)
                \subseteq FlattenedPermissions(get_entity_bindings(EntityOrAnonymous(e)))
          /\ BeyondSomePattern(EntityOrAnonymous(e), rb)
          /\ ENABLED (api_post_token(e, None, NoExpiration, rb) /\ response' = "400")
          /\ ~ENABLED (api_post_token(e, None, NoExpiration, rb) /\ response' = "200")

(* The caller of a listing has READ on the row *)
CanRead(c, kind, row) ==
    CASE kind = "namespace" -> "NAMESPACE_READ" \in NamespacePermissions(c, row.name)
      [] kind = "usage"     -> "NAMESPACE_READ" \in NamespacePermissions(c, row.name)
      [] kind = "build"     ->
            "ENVIRONMENT_READ" \in BindingPermissions(get_entity_bindings(Entity(c)),
                                                       builds[row].env)
      [] OTHER -> TRUE

(* The rows of the table a listing is taken from *)
Listable(kind) ==
    CASE kind = "namespace" -> list_namespaces(FALSE)
      [] kind = "usage"     -> get_namespace_metrics
      [] kind = "build"     -> DOMAIN builds
      [] OTHER -> {}

(* C16: every row the namespace listing, the build listing and the usage   *)
(* metrics return is a row of the table on which the caller has READ, and  *)
(* the count reported is the number of rows of the table the caller has    *)
(* READ on.                                                                 *)
C16_ListingsOnlyReadableRows ==
    listing.kind \in {"namespace", "usage", "build"} =>
        /\ listing.rows \subseteq Listable(listing.kind)
        /\ \A row \in listing.rows : CanRead(listing.caller, listing.kind, row)
        /\ listing.count =
              Cardinality({row \in Listable(listing.kind) :
                              CanRead(listing.caller, listing.kind, row)})

(* A caller was listed one namespace of several while the table holds      *)
(* namespaces and builds the caller cannot read                             *)
C16_Witness ==
    /\ listing.kind = "namespace"
    /\ listing.rows # {}
    /\ listing.count = 1
    /\ \E n \in list_namespaces(FALSE) : ~CanRead(listing.caller, "namespace", n)
    /\ \E b \in DOMAIN builds : ~CanRead(listing.caller, "build", b)

(* The string namespace/name of an environment and of a pattern *)
Slash(namespace, name) == Chars[namespace] \o <<"/">> \o Chars[name]

(* A pattern matches a string when the string is the pattern with every    *)
(* "*" replaced by some run of characters                                   *)
RECURSIVE GlobMatch(_, _)
GlobMatch(pattern, string) ==
    IF pattern = <<>> THEN string = <<>>
    ELSE IF Head(pattern) = "*"
    THEN \E k \in 0..Len(string) :
            GlobMatch(Tail(pattern), SubSeq(string, k + 1, Len(string)))
    ELSE /\ string # <<>>
         /\ Head(pattern) = Head(string)
         /\ GlobMatch(Tail(pattern), Tail(string))

(* The names of the environments listed, and of those in the database *)
ListedEnvironmentNames == {e.name : e \in listing.rows}
PresentEnvironmentNames == {e.name : e \in environment_rows}

(* C17: list_environments called with role bindings returns exactly the    *)
(* environments whose string namespace/name matches a pattern of the       *)
(* bindings, "*" standing for any run of characters: pytest*/env* selects  *)
(* env1, env2 and env3 but not foo, */env1 selects env1 only, e*/e*        *)
(* selects nothing.                                                         *)
C17_RoleBindingsSelectByGlob ==
    listing.kind = "environment" =>
        /\ listing.rows =
              {e \in environment_rows :
                  \E p \in DOMAIN listing.role_bindings :
                      GlobMatch(Slash(p[1], p[2]), Slash(NamespaceOf(e), e.name))}
        /\ DOMAIN listing.role_bindings = {<<"pytest*", "env*">>} =>
              ListedEnvironmentNames = PresentEnvironmentNames \cap {"env1", "env2", "env3"}
        /\ DOMAIN listing.role_bindings = {<<"*", "env1">>} =>
              ListedEnvironmentNames = PresentEnvironmentNames \cap {"env1"}
        /\ DOMAIN listing.role_bindings = {<<"e*", "e*">>} =>
              ListedEnvironmentNames = {}
        /\ DOMAIN listing.role_bindings = {<<"pytest2", "*">>, <<"e*", "e*">>} =>
              ListedEnvironmentNames = PresentEnvironmentNames \cap {"env2"}

(* The four environments exist and pytest*/env* has selected env1, env2    *)
(* and env3                                                                 *)
C17_Witness ==
    /\ listing.kind = "environment"
    /\ DOMAIN listing.role_bindings = {<<"pytest*", "env*">>}
    /\ PresentEnvironmentNames = {"env1", "env2", "env3", "foo"}
    /\ ListedEnvironmentNames = {"env1", "env2", "env3"}

(* C18: in the patterns of role bindings "*" is a wildcard only when it is *)
(* the whole namespace segment or the whole environment segment; a "*"     *)
(* next to other characters in a segment matches no run of characters, so  *)
(* the environments listed are those matched segment by segment, each      *)
(* segment literally or by a lone "*".                                      *)
C18_WildcardOnlyWholeSegment ==
    listing.kind = "environment" =>
        listing.rows =
            {e \in environment_rows :
                \E p \in DOMAIN listing.role_bindings :
                    /\ SegmentMatch(p[1], NamespaceOf(e))
                    /\ SegmentMatch(p[2], e.name)}

(* The mapping the creation in session r is about to commit *)
Pending(r) ==
    [id |-> next_role_id, namespace |-> sessions[r].namespace,
     other |-> sessions[r].other, role |-> sessions[r].role]

(* C19: the creation of a role mapping for a pair (namespace, other) that  *)
(* has a mapping fails with a DuplicateError and changes no mapping; the   *)
(* creation for a pair without mapping, also a pair whose mapping was      *)
(* deleted, succeeds and adds the mapping.                                  *)
C19_DuplicateThenDeleteThenCreate ==
    \A r \in Slots :
        (sessions[r].pc = "commit" /\ next_role_id <= MaxRoleMappings) =>
            /\ Mapped(sessions[r].namespace, sessions[r].other) # {} =>
                  ~ENABLED (/\ api_create_namespace_role_commit(r)
                            /\ ~(/\ response' = DuplicateError
                                 /\ role_mappings' = role_mappings))
            /\ Mapped(sessions[r].namespace, sessions[r].other) = {} =>
                  /\ ENABLED (api_create_namespace_role_commit(r))
                  /\ ~ENABLED (/\ api_create_namespace_role_commit(r)
                               /\ ~(/\ response' = "200"
                                    /\ role_mappings' = role_mappings \cup {Pending(r)}))

(* An admin's update, listing and deletion of mapping m succeed *)
StillServed(m) ==
    /\ ENABLED (/\ api_update_namespace_role("admin", m.namespace, m.other, "admin")
                /\ response' = "200"
                /\ role_mappings' = (role_mappings \ {m}) \cup {[m EXCEPT !.role = Admin]})
    /\ ENABLED (/\ api_get_namespace_roles("admin", m.namespace)
                /\ response' = "200"
                /\ \E i \in DOMAIN listing'.rows : listing'.rows[i] = m)
    /\ ENABLED (/\ api_delete_namespace_role("admin", m.namespace, m.other)
                /\ response' = "200"
                /\ role_mappings' = role_mappings \ {m})

Ascending(rows) ==
    \A i, j \in DOMAIN rows : i < j => rows[i].id < rows[j].id

(* The ids of the mappings of a namespace, in the order of the listing *)
ListedIds(mappings, namespace) ==
    LET rows == ById({m \in mappings : m.namespace = namespace})
    IN [i \in DOMAIN rows |-> rows[i].id]

(* The update of the mapping (namespace, other) replaced its role and      *)
(* nothing else                                                             *)
UpdatedInPlace(namespace, other) ==
    /\ Cardinality(role_mappings') = Cardinality(role_mappings)
    /\ \A m \in role_mappings :
          IF m.namespace = namespace /\ m.other = other
          THEN \E n \in role_mappings' :
                  n.id = m.id /\ n.namespace = m.namespace /\ n.other = m.other
          ELSE m \in role_mappings'
    /\ \A ns \in RoleNamespaces :
          ListedIds(role_mappings', ns) = ListedIds(role_mappings, ns)
    /\ next_role_id' = next_role_id

(* C21: the listing of the role mappings of a namespace holds exactly the  *)
(* mappings of that namespace in ascending order of their ids, and an      *)
(* update that succeeds changes the role of the addressed mapping only:    *)
(* its id, its key, its position in the listing and every other mapping    *)
(* are as before.                                                           *)
C21_ListingByIdUpdateInPlace ==
    /\ \A c \in Callers, ns \in RequestNamespaces :
          ~ENABLED (/\ api_get_namespace_roles(c, ns)
                    /\ response' = "200"
                    /\ ~(/\ Ascending(listing'.rows)
                         /\ {listing'.rows[i] : i \in DOMAIN listing'.rows} =
                               {m \in role_mappings : m.namespace = ns}
                         /\ listing'.count = Cardinality({m \in role_mappings :
                                                            m.namespace = ns})))
    /\ \A c \in Callers, ns \in RequestNamespaces, other \in RoleNamespaces,
          role \in RequestRoles :
          ~ENABLED (/\ api_update_namespace_role(c, ns, other, role)
                    /\ ~UpdatedInPlace(ns, other))

(* The first mapping was updated to developer and is still listed first,   *)
(* before the mapping with the id 3                                         *)
C21_Witness ==
    /\ listing.kind = "role"
    /\ Len(listing.rows) = 2
    /\ listing.rows[1].id = 1 /\ listing.rows[1].role = Developer
    /\ listing.rows[2].id = 3
    /\ \E m \in role_mappings : m.id = 1 /\ m.role = Developer

(* The role names of the known set, editor being the other name of         *)
(* developer                                                                *)
KnownRoleNames == Roles \cup {"editor"}

(* C22: a creation or an update of a role mapping whose role is outside    *)
(* the known set leaves the role mappings and the sessions as they are,    *)
(* and it answers 400 (the ValueError "invalid role=X") when the caller is *)
(* authorized and the namespace exists.                                     *)
C22_InvalidRoleRejected ==
    \A c \in Callers, ns \in RequestNamespaces, other \in RoleNamespaces,
       role \in RequestRoles \ KnownRoleNames :
       /\ \A r \in Slots :
             ~ENABLED (/\ api_create_namespace_role(r, c, ns, other, role)
                       /\ ~(/\ UNCHANGED roleVars
                            /\ response' \in {"400", "403", "404"}
                            /\ (Authorized(c, <<ns, "">>,
                                    {"NAMESPACE_READ", "NAMESPACE_ROLE_MAPPING_CREATE"})
                                 /\ ns \in namespaces) => response' = "400"))
       /\ ~ENABLED (/\ api_update_namespace_role(c, ns, other, role)
                    /\ ~(/\ UNCHANGED roleVars
                         /\ response' \in {"400", "403", "404"}
                         /\ (Authorized(c, <<ns, "">>,
                                 {"NAMESPACE_READ", "NAMESPACE_ROLE_MAPPING_UPDATE"})
                              /\ ns \in namespaces) => response' = "400"))

(* A request was answered 400 while both pairs the requests can address    *)
(* are mapped, so that the role it carried was the invalid one             *)
C22_Witness ==
    /\ response = "400"
    /\ \A other \in RoleNamespaces : Mapped("ns1", other) # {}

(* C23: editor and developer name one role: every stored mapping and every *)
(* row waiting for its commit carries a role of the enum, a creation or an *)
(* update with either name is accepted like any valid role, and the        *)
(* mapping it writes reads back as developer.                               *)
C23_EditorIsDeveloper ==
    /\ \A m \in role_mappings : m.role \in Roles
    /\ \A r \in Slots : sessions[r].pc = "commit" => sessions[r].role \in Roles
    /\ \A c \in Callers, ns \in RequestNamespaces, other \in RoleNamespaces,
          role \in {"editor", "developer"} :
          /\ \A r \in Slots :
                ~ENABLED (/\ api_create_namespace_role(r, c, ns, other, role)
                          /\ Authorized(c, <<ns, "">>,
                                {"NAMESPACE_READ", "NAMESPACE_ROLE_MAPPING_CREATE"})
                          /\ ns \in namespaces
                          /\ ~(/\ sessions'[r].pc = "commit"
                               /\ sessions'[r].role = Developer))
          /\ ~ENABLED (/\ api_update_namespace_role(c, ns, other, role)
                       /\ Authorized(c, <<ns, "">>,
                             {"NAMESPACE_READ", "NAMESPACE_ROLE_MAPPING_UPDATE"})
                       /\ Mapped(ns, other) # {}
                       /\ ~(/\ response' = "200"
                            /\ \A m \in role_mappings' :
                                  (m.namespace = ns /\ m.other = other) =>
                                     m.role = Developer))
    /\ \A r \in Slots :
          ~ENABLED (/\ api_create_namespace_role_commit(r)
                    /\ response' = "200"
                    /\ ~(\E m \in role_mappings' \ role_mappings :
                            m.role = sessions[r].role))

(* Two mappings read back as developer *)
C23_Witness ==
    /\ response = "200"
    /\ Cardinality({m \in role_mappings : m.role = Developer}) = 2

(* C24: a deletion of the mapping of a pair that succeeds removes the one  *)
(* mapping of that pair and no other; a deletion of the mappings of a      *)
(* namespace that succeeds removes every mapping of that namespace and no  *)
(* mapping of another one; and the listing of a namespace that has no      *)
(* mapping returns none.                                                    *)
C24_DeleteRemovesExactly ==
    /\ \A c \in Callers, ns \in RequestNamespaces, other \in RoleNamespaces :
          ~ENABLED (/\ api_delete_namespace_role(c, ns, other)
                    /\ response' = "200"
                    /\ ~(/\ role_mappings' =
                               {m \in role_mappings :
                                   ~(m.namespace = ns /\ m.other = other)}
                         /\ Cardinality(role_mappings') =
                               Cardinality(role_mappings) - 1))
    /\ \A c \in Callers, ns \in RequestNamespaces :
          /\ ~ENABLED (/\ api_delete_namespace_roles(c, ns)
                       /\ response' = "200"
                       /\ role_mappings' #
                             {m \in role_mappings : m.namespace # ns})
          /\ (\A m \in role_mappings : m.namespace # ns) =>
                ~ENABLED (/\ api_get_namespace_roles(c, ns)
                          /\ response' = "200"
                          /\ listing'.count # 0)

(* The mappings of the namespace were deleted, the mapping of the other    *)
(* namespace is left, and the listing returned none                         *)
C24_Witness ==
    /\ {m.id : m \in role_mappings} = {2}
    /\ listing.kind = "role"
    /\ listing.count = 0
    /\ listing.rows = <<>>

(* What set_kvstore_key_values(prefix, d, update) leaves under the key of *)
(* the prefix: the value of d when the key is in d and either update is    *)
(* set or the key had no row, and what was there before otherwise          *)
SetOutcome(prefix, d, update, key) ==
    LET k == <<prefix, key>> IN
    IF key \in DOMAIN d /\ (update \/ k \notin DOMAIN kvstore)
    THEN k \in DOMAIN kvstore' /\ kvstore'[k] = d[key]
    ELSE IF k \in DOMAIN kvstore
    THEN k \in DOMAIN kvstore' /\ kvstore'[k] = kvstore[k]
    ELSE k \notin DOMAIN kvstore'

(* C25: under one prefix, set_kvstore_key_values with update set writes    *)
(* every pair it is given, overwriting and adding; without update it adds  *)
(* the absent keys and leaves the value of every existing key; and         *)
(* get_kvstore_key_values returns exactly the pairs stored under the       *)
(* prefix.                                                                  *)
C25_SetMergesOrInsertsAbsent ==
    /\ \A prefix \in KvPrefixes, d \in KvDicts, update \in BOOLEAN :
          ~ENABLED (/\ SetKeyValues(prefix, d, update)
                    /\ \E key \in KvKeys : ~SetOutcome(prefix, d, update, key))
    /\ \A prefix \in KvPrefixes :
          ~ENABLED (/\ GetKeyValues(prefix)
                    /\ ~(/\ DOMAIN listing'.rows = {k[2] : k \in KvRows(prefix)}
                         /\ \A key \in DOMAIN listing'.rows :
                               listing'.rows[key] = kvstore[<<prefix, key>>]))

(* get_kvstore_key_values returned the merged pairs of a prefix, and a set *)
(* without update leaves the value of the key that has a row and adds the  *)
(* one that has none                                                        *)
C25_Witness ==
    /\ listing.kind = "kvstore"
    /\ listing.prefix = <<"pytest">>
    /\ DOMAIN listing.rows = {"c"}
    /\ listing.rows["c"] = 1
    /\ get_kvstore_key_values(<<"pytest">>) = listing.rows
    /\ ENABLED (/\ SetKeyValues(<<"pytest">>, [key \in KvKeys |-> 999], FALSE)
                /\ kvstore'[<<<<"pytest">>, "c">>] = 1
                /\ kvstore'[<<<<"pytest">>, "d">>] = 999)

(* C26: the prefixes are apart: a set under one prefix changes no row of   *)
(* another prefix, longer or shorter, and no answer of                     *)
(* get_kvstore_key_values for another prefix; get_kvstore_key_values       *)
(* returns keys of the exact prefix only; and get_kvstore_key of a key     *)
(* that has no row answers None.                                            *)
C26_PrefixesIsolated ==
    /\ \A prefix \in KvPrefixes, d \in KvDicts, update \in BOOLEAN :
          ~ENABLED (/\ SetKeyValues(prefix, d, update)
                    /\ \E q \in KvPrefixes \ {prefix} :
                          \/ get_kvstore_key_values(q)' # get_kvstore_key_values(q)
                          \/ \E key \in KvKeys :
                                get_kvstore_key(q, key)' # get_kvstore_key(q, key))
    /\ \A prefix \in KvPrefixes :
          DOMAIN get_kvstore_key_values(prefix) =
             {key \in KvKeys : <<prefix, key>> \in DOMAIN kvstore}
    /\ \A prefix \in KvPrefixes, key \in KvKeys :
          <<prefix, key>> \notin DOMAIN kvstore =>
             ~ENABLED (GetKey(prefix, key) /\ listing'.rows # <<>>)

(* The three prefixes hold different keys or values, the middle one was    *)
(* read and returned its own pair only, and a key without a row is left    *)
C26_Witness ==
    /\ DOMAIN kvstore = {<<<<"pytest">>, "c">>, <<<<"pytest", "1">>, "d">>,
                         <<<<"pytest", "1", "2">>, "c">>}
    /\ kvstore[<<<<"pytest">>, "c">>] = 1
    /\ kvstore[<<<<"pytest", "1", "2">>, "c">>] = 999
    /\ listing.kind = "kvstore"
    /\ listing.prefix = <<"pytest", "1">>
    /\ DOMAIN listing.rows = {"d"}

(* C27: build_path raises BuildPathError exactly when the path is longer  *)
(* than 255 characters, and otherwise returns the path at its full length: *)
(* no path is returned shorter than its parts make it.                     *)
C27_BuildPathLimit ==
    listing.kind = "build_path" =>
       LET n == listing.store_directory + listing.namespace + listing.build_key + 2
       IN IF n > 255
          THEN listing.rows.raised = BuildPathError
          ELSE listing.rows.raised = None /\ listing.rows.length = n

(* The store directory of 800 characters of the test raised the error *)
C27_Witness ==
    /\ listing.kind = "build_path"
    /\ listing.store_directory = 800
    /\ listing.namespace = 6
    /\ listing.rows.raised = BuildPathError

(* C28: a registration without force of a specification whose content is  *)
(* that of a build of the same environment that is not canceled returns    *)
(* the id of such a build and creates no build and no task; with force, or *)
(* without such a build, it creates a new build in state QUEUED and        *)
(* returns its id; POST /specification/ registers with force.              *)
C28_RegistrationIdempotentUnlessForced ==
    /\ \A sp \in RegisteredSpecifications, ns \in NamespaceNames :
          LET unchanged == {b \in DOMAIN builds :
                               /\ builds[b].env = <<ns, sp.name>>
                               /\ builds[b].sha256 = sp.sha256
                               /\ builds[b].status # CANCELED}
          IN
          /\ unchanged # {} =>
                ~ENABLED (/\ register_environment_force(sp, ns, FALSE)
                          /\ ~(/\ listing'.rows \in unchanged
                               /\ listing'.count = 0
                               /\ UNCHANGED <<builds, next_build_id, tasks>>))
          /\ \A force \in BOOLEAN :
                (force \/ unchanged = {}) =>
                   /\ next_build_id <= MaxBuilds =>
                         ENABLED register_environment_force(sp, ns, force)
                   /\ ~ENABLED (/\ register_environment_force(sp, ns, force)
                                /\ ~(/\ listing'.rows = next_build_id
                                     /\ listing'.rows \notin DOMAIN builds
                                     /\ DOMAIN builds' = DOMAIN builds \cup {next_build_id}
                                     /\ builds'[next_build_id].status = QUEUED
                                     /\ builds'[next_build_id].sha256 = sp.sha256
                                     /\ \A b \in DOMAIN builds : builds'[b] = builds[b]))
    /\ \A c \in Callers, ns \in NamespaceNames, sp \in Specifications :
          ~ENABLED (/\ api_post_specification(c, ns, sp)
                    /\ response' = "200"
                    /\ DOMAIN builds' # DOMAIN builds \cup {next_build_id})

(* A registration returned the id of the one build there is, which has     *)
(* completed, and created none; a canceled build of the same content would *)
(* not be returned                                                          *)
C28_Witness ==
    /\ listing.kind = "register"
    /\ listing.count = 0
    /\ DOMAIN builds = {1}
    /\ listing.rows = 1
    /\ builds[1].status = COMPLETED

(* The request that failed on the dispatch left one new build in state     *)
(* QUEUED, no task and no artifact of it, and every other build as it was  *)
LeftQueued ==
    /\ response' = "500"
    /\ DOMAIN builds' = DOMAIN builds \cup {next_build_id}
    /\ next_build_id \notin DOMAIN builds
    /\ builds'[next_build_id].status = QUEUED
    /\ ~builds'[next_build_id].is_canceled
    /\ \A b \in DOMAIN builds : builds'[b] = builds[b]
    /\ tasks' = tasks
    /\ storage' = storage
    /\ {k \in storage' : k[1] = next_build_id} = {}

(* A build in state QUEUED none of whose tasks is dispatched *)
Undispatched(b) ==
    /\ b \in DOMAIN builds
    /\ builds[b].status = QUEUED
    /\ \A t \in tasks : t[1] # b

(* C29: a rebuild or a submission whose dispatch fails after the Build row *)
(* was created ends as a failed request and leaves the new build in state  *)
(* QUEUED without a task or an artifact; such a build can be canceled,     *)
(* marked CANCELED by the cleanup and deleted; and every build row has one *)
(* of the five statuses.                                                    *)
C29_DispatchFailureLeavesQueued ==
    /\ \A b \in DOMAIN builds :
          builds[b].status \in {"QUEUED", "BUILDING", "COMPLETED", "FAILED", "CANCELED"}
    /\ \A c \in Callers, b \in BuildIds :
          ~ENABLED (api_put_build_dispatch_fails(c, b) /\ ~LeftQueued)
    /\ \A c \in Callers, ns \in NamespaceNames \cup {None}, sp \in Specifications :
          ~ENABLED (api_post_specification_dispatch_fails(c, ns, sp) /\ ~LeftQueued)
    /\ \A b \in BuildIds :
          Undispatched(b) =>
             /\ {k \in storage : k[1] = b} = {}
             /\ cancel.pc = "idle" =>
                   ENABLED (/\ api_put_build_cancel_begin("admin", b)
                            /\ cancel'.pc = "ping" /\ cancel'.build_id = b)
             /\ \A cl \in cleanups :
                   cl.build_id = b =>
                      ENABLED (/\ task_cleanup_builds(cl)
                               /\ builds'[b].status = CANCELED)
             /\ ENABLED (/\ api_delete_build("admin", b)
                         /\ response' = "200"
                         /\ b \notin DOMAIN builds')

(* A rebuild failed on the dispatch: the first build has completed, the    *)
(* second one is left in state QUEUED without a task                        *)
C29_Witness ==
    /\ response = "500"
    /\ DOMAIN builds = {1, 2}
    /\ builds[1].status = COMPLETED
    /\ Undispatched(2)

(* The request for a build that does not exist was answered 404 and       *)
(* changed nothing                                                          *)
NotFoundOnly ==
    /\ response' = "404"
    /\ UNCHANGED <<buildVars, cancel, offBuild>>

(* C30: every endpoint of a build answers a request for a build id that    *)
(* does not exist with 404 "build id does not exist" and changes nothing:  *)
(* get, rebuild, cancel, delete, packages, logs, yaml, lockfile, archive,  *)
(* docker and installer.                                                    *)
C30_MissingBuildNotFound ==
    \A c \in Callers, b \in RequestBuildIds \ DOMAIN builds :
       /\ ~ENABLED (api_get_build(c, b) /\ ~NotFoundOnly)
       /\ ~ENABLED (api_put_build(c, b) /\ ~NotFoundOnly)
       /\ ~ENABLED (api_put_build_cancel_begin(c, b) /\ ~NotFoundOnly)
       /\ ~ENABLED (api_delete_build(c, b) /\ ~NotFoundOnly)
       /\ ~ENABLED (api_get_build_packages(c, b) /\ ~NotFoundOnly)
       /\ ~ENABLED (api_get_build_logs(c, b) /\ ~NotFoundOnly)
       /\ ~ENABLED (api_get_build_yaml(c, b) /\ ~NotFoundOnly)
       /\ ~ENABLED (api_get_build_lockfile(c, b) /\ ~NotFoundOnly)
       /\ ~ENABLED (api_get_build_archive(c, b) /\ ~NotFoundOnly)
       /\ ~ENABLED (api_get_build_docker_image_url(c, b) /\ ~NotFoundOnly)
       /\ ~ENABLED (api_get_build_installer(c, b) /\ ~NotFoundOnly)

(* C31: no request blocks forever: a solve request that waits for its     *)
(* solve task returns, with the solve or with a failure, also when the     *)
(* task is never processed.                                                 *)
C31_NoRequestBlocksForever ==
    \A r \in Slots : (solve_req[r].pc = "wait") ~> (solve_req[r].pc = "idle")

(* C32: a solve request for a content another request is waiting for      *)
(* waits for the same solve, the one of that content: it makes no solve    *)
(* and dispatches no task, and once the task has run both requests are     *)
(* answered from it.                                                        *)
C32_ConcurrentSolvesShareSolve ==
    \A r \in Slots : \A q \in Slots \ {r} :
       solve_req[q].pc = "wait" =>
          /\ solve_req[q].sha \in DOMAIN solves
          /\ \A c \in Callers :
                ~ENABLED (/\ api_get_specification(r, c, solve_req[q].sha)
                          /\ ~(/\ solves' = solves
                               /\ solve_req'[r].pc = "wait"
                               /\ solve_req'[r].sha = solve_req[q].sha
                               /\ solve_req'[q] = solve_req[q]))
          /\ (solve_req[r].pc = "wait" /\ solve_req[r].sha = solve_req[q].sha
              /\ solves[solve_req[q].sha] # "pending") =>
                /\ ENABLED (api_get_specification_return(r) /\ solves' = solves)
                /\ ENABLED (api_get_specification_return(q) /\ solves' = solves)

(* Two requests wait for the one solve there is, whose task has run *)
C32_Witness ==
    /\ \A r \in Slots : solve_req[r].pc = "wait" /\ solve_req[r].sha = "s1"
    /\ DOMAIN solves = {"s1"}
    /\ solves["s1"] = "done"

(* C33: the listing of the namespaces returns no namespace that is        *)
(* soft-deleted and none whose row is gone; the fetch by name of a name    *)
(* that no live row holds is refused, with "namespace does not exist" for  *)
(* a caller who may read it; and while every namespace is deleted the      *)
(* listing is empty.                                                        *)
C33_DeletedNamespaceNotListed ==
    /\ \A c \in Callers :
          ~ENABLED (/\ api_list_namespaces(c, 10, 0)
                    /\ ~(/\ \A n \in listing'.rows :
                               n \in namespace_rows /\ ~n.deleted
                         /\ listing'.count <=
                               Cardinality({n \in namespace_rows : ~n.deleted})))
    /\ \A c \in Callers, ns \in RegistryNames :
          (\A n \in namespace_rows : n.name = ns => n.deleted) =>
             ~ENABLED (api_get_namespace(c, ns) /\ response' \notin {"403", "404"})
    /\ \A ns \in RegistryNames :
          (\A n \in namespace_rows : n.name = ns => n.deleted) =>
             ~ENABLED (api_get_namespace("admin", ns) /\ response' # "404")
    /\ (\A n \in namespace_rows : n.deleted) =>
          ~ENABLED (/\ api_list_namespaces("admin", 10, 0)
                    /\ ~(listing'.count = 0 /\ listing'.rows = {}))

(* A namespace was created, every namespace is deleted, one through the    *)
(* endpoint and one through the registry, and the listing returned none    *)
C33_Witness ==
    /\ next_namespace_id = 3
    /\ Cardinality(namespace_rows) = 1
    /\ \A n \in namespace_rows : n.deleted
    /\ listing.kind = "namespace"
    /\ listing.caller = "admin"
    /\ listing.count = 0

(* C34: no state holds a storage key of a build that has no row, also      *)
(* after a deletion stopped part-way; a deletion that succeeds removes the *)
(* row and every key of the build; and the deletion of a build that has a  *)
(* row, half deleted or not, can be repeated to its end without error.     *)
C34_DeleteLeavesNoKey ==
    /\ \A k \in storage : Exists(k[1])
    /\ \A c \in Callers, b \in BuildIds :
          ~ENABLED (/\ api_delete_build(c, b)
                    /\ response' = "200"
                    /\ ~(b \notin DOMAIN builds' /\ \A k \in storage' : k[1] # b))
    /\ \A b \in DOMAIN builds :
          ENABLED (/\ api_delete_build("admin", b)
                   /\ response' = "200"
                   /\ b \notin DOMAIN builds'
                   /\ \A k \in storage' : k[1] # b)

(* A deletion of build 1 stopped after some of its keys were removed       *)
C34_Witness ==
    /\ response = "500"
    /\ Exists(1)
    /\ BuildKeys(1) # {}
    /\ BuildKeys(1) # ArtifactKeys(1)
    /\ tasks \cap BuildTasks(1) = {}

(* The listing of a caller with a jwt: what both the bindings of the token *)
(* and the bindings of the caller select, and no state but the listing     *)
(* written                                                                  *)
Restricted(entity_role_bindings, jwt) ==
    /\ listing'.rows \subseteq SelectedBy(entity_role_bindings)
    /\ listing'.rows = IF jwt = <<>>
                       THEN SelectedBy(entity_role_bindings)
                       ELSE SelectedBy(jwt[1]) \cap SelectedBy(entity_role_bindings)
    /\ listing'.role_bindings = entity_role_bindings
    /\ UNCHANGED <<tokenVars, roleVars, registryVars>>

(* C35: in the listing of the environments a jwt restricts and never       *)
(* widens the result: the environments returned are those selected both by *)
(* the bindings of the supplied token and by the bindings of the caller,   *)
(* and the bindings of the caller are after the request what they were.    *)
C35_JwtRestrictsListing ==
    /\ \A rb \in EntityRoleBindings, jwt \in RequestJwts :
          /\ ENABLED api_list_environments_v1(rb, jwt)
          /\ ~ENABLED (api_list_environments_v1(rb, jwt) /\ ~Restricted(rb, jwt))
    /\ listing.kind = "environment_v1" =>
          /\ listing.rows \subseteq SelectedBy(listing.role_bindings)
          /\ listing.jwt # <<>> => listing.rows \subseteq SelectedBy(listing.jwt[1])

(* A caller bound to */env1 lists with the jwt of a token bound to */*:    *)
(* with all four environments in the database, env1 alone is returned      *)
C35_Witness ==
    /\ listing.kind = "environment_v1"
    /\ Cardinality(environment_rows) = 4
    /\ DOMAIN listing.role_bindings = {<<"*", "env1">>}
    /\ listing.jwt # <<>>
    /\ DOMAIN listing.jwt[1] = {<<"*", "*">>}
    /\ {e.name : e \in listing.rows} = {"env1"}
    /\ SelectedBy(listing.jwt[1]) = environment_rows

(* The token a request without entity asked for is within the anonymous    *)
(* identity: no permission on any ARN that the anonymous identity does not *)
(* hold, an expiration of at most one day from now, and not the bindings   *)
(* of a login                                                               *)
WithinAnonymous(new_entity) ==
    /\ \A arn \in Arns : Holds(new_entity, arn) \subseteq Holds(NoEntity, arn)
    /\ new_entity.exp <= now + OneDay
    /\ \A c \in Callers \ {None} : new_entity.role_bindings # Entity(c).role_bindings

C37_UnauthorizedSameWhetherExists ==
    \A c \in Callers :
       (/\ environments # {}
        /\ \A env \in environments : entity_permissions[c][env] = {})
          => \A b \in RequestBuildIds :
                /\ ~ENABLED (api_get_build(c, b) /\ response' # "403")
                /\ ~ENABLED (api_get_build_logs(c, b) /\ response' # "403")
                /\ ~ENABLED (api_put_build(c, b) /\ response' # "403")
                /\ ~ENABLED (api_delete_build(c, b) /\ response' # "403")

(* C38: no submission of a caller who lacks NAMESPACE_CREATE on its target *)
(* creates a namespace, whatever happens between the lookup of the         *)
(* namespace and the registration.                                          *)
C38_NoNamespaceWithoutNamespaceCreate ==
    \A r \in Slots :
       (/\ create_req[r].pc = "register"
        /\ ~Authorized(create_req[r].caller,
                       <<create_req[r].name, create_req[r].specification.name>>,
                       {"NAMESPACE_CREATE"}))
          => ~ENABLED (/\ api_post_specification_register(r)
                       /\ namespaces' # namespaces)

(* C39: the lockfile of an environment fetched by namespace and name is    *)
(* what the lockfile fetched by the id of the current build of the         *)
(* environment is, and the legacy lockfile is built exactly when the build *)
(* served has a LOCKFILE artifact with the empty key, whatever the         *)
(* artifacts of the other builds are.                                       *)
C39_LockfileByNameAsByBuildId ==
    \A c \in Callers, env \in environments, unfiltered \in BOOLEAN :
       current_build[env] # 0 =>
          /\ get_build_lockfile(c, env[1], env[2], 0, unfiltered)
                = get_build_lockfile(c, None, None, current_build[env], unfiltered)
          /\ get_build_lockfile(c, env[1], env[2], 0, unfiltered).status \in {"200", "307"}
                => (get_build_lockfile(c, env[1], env[2], 0, unfiltered).legacy
                       <=> <<current_build[env], "">> \in storage)

(* The columns of the allowed table *)
AllowedRange == {AllowedSortBys[s] : s \in DOMAIN AllowedSortBys}

(* C40: the sort list begins with the required columns in their order,     *)
(* holds columns of the allowed table only, one for each name of the       *)
(* request (of the default when the request names none) that is in the     *)
(* table and none for a name that is not, and gives every column the       *)
(* direction of the request, or the default direction when the request     *)
(* asks for neither asc nor desc.                                           *)
C40_SortsRequiredFirstAllowedOnly ==
    listing.kind = "sorts" =>
       LET sorts == listing.sorts
           required == listing.required_sort_bys
           named == IF listing.sort_by # <<>> THEN listing.sort_by ELSE DefaultSortBy
           known == SelectSeq(named, LAMBDA s : s \in {"channel", "name", "version"})
       IN
       /\ Len(sorts) >= Len(required)
       /\ \A i \in 1..Len(required) : sorts[i][1] = required[i]
       /\ \A i \in 1..Len(sorts) : sorts[i][1] \in AllowedRange
       /\ Len(sorts) \in {Len(known), Len(known) + Len(required)}
       /\ \A i \in 1..Len(known) :
             sorts[Len(sorts) - Len(known) + i][1] = AllowedSortBys[known[i]]
       /\ \A i \in 1..Len(sorts) :
             sorts[i][2] = IF listing.order \in {"asc", "desc"}
                           THEN listing.order ELSE "asc"

(* A request with the order "up" sorted by build, which is in no table,    *)
(* and name, distinct on channel: channel first, then name, both ascending *)
C40_Witness ==
    /\ listing.kind = "sorts"
    /\ listing.order = "up"
    /\ listing.sort_by = <<"build", "name">>
    /\ listing.required_sort_bys = <<"CondaChannel.name">>
    /\ listing.sorts = <<<<"CondaChannel.name", "asc">>, <<"CondaPackage.name", "asc">>>>

====
